---- MODULE Spec2Model ----
(***************************************************************************)
(* Model of npm-check-prepublish: the CheckPrepublish class of             *)
(* src/checker.ts.  One checker is constructed over one artifact root and  *)
(* check() is called on it up to MaxRuns times.                            *)
(*                                                                         *)
(* Strings are sequences of one-character strings, so that startsWith,     *)
(* split and path joining are computed, not assumed.  The empty sequence   *)
(* stands for an absent (or empty) manifest field: both are falsy in the   *)
(* code's `if (field)` tests.                                              *)
(***************************************************************************)
EXTENDS Integers, Sequences, FiniteSets, TLC

(* ------------------------------ bounds -------------------------------- *)
\* number of check() calls on the checker
MaxRuns == 2
\* number of environment faults (an external operation failing for a reason
\* that is not visible in the modelled file system) over the whole behaviour
MaxFaults == 1

(* ------------------------------ strings ------------------------------- *)
S_packageJson == <<"p","a","c","k","a","g","e",".","j","s","o","n">>
S_main        == <<".","/","d","i","s","t","/","i","n","d","e","x",".","j","s">>
S_distIndex   == <<"d","i","s","t","/","i","n","d","e","x",".","j","s">>
S_indexJs     == <<".","/","i","n","d","e","x",".","j","s">>
S_binCli      == <<"b","i","n","/","c","l","i",".","j","s">>
S_binServer   == <<"b","i","n","/","s","e","r","v","e","r",".","j","s">>
S_env         == <<".","e","n","v">>
S_envLocal    == <<".","e","n","v",".","l","o","c","a","l">>
S_myenvfile   == <<"m","y","e","n","v","f","i","l","e">>
S_src         == <<"s","r","c">>
S_srcA        == <<"s","r","c","/","a",".","t","s">>
S_test        == <<"t","e","s","t">>
S_testing     == <<"t","e","s","t","i","n","g">>
S_testingA    == <<"t","e","s","t","i","n","g","/","a",".","j","s">>
S_srcs        == <<"s","r","c","s">>
S_srcsA       == <<"s","r","c","s","/","a",".","j","s">>
S_readme      == <<"R","E","A","D","M","E">>
S_license     == <<"L","I","C","E","N","S","E">>
S_nodeModules == <<"n","o","d","e","_","m","o","d","u","l","e","s">>
S_checkTests  == <<"c","h","e","c","k",".","j","s">>
S_modName     == <<"m","o","d">>
S_cliName     == <<"@","s","/","c","l","i">>
S_srvName     == <<"s","r","v">>
S_scopedMod   == <<"@","s","/","m","o","d">>
S_scopedSrv   == <<"@","s","/","s","r","v">>
S_mcpName     == <<"i","o","/","s","r","v">>
S_version     == <<"1",".","0",".","0">>

\* String.prototype.startsWith
StartsWith(s, p) ==
  /\ Len(p) <= Len(s)
  /\ SubSeq(s, 1, Len(p)) = p

\* String.prototype.includes
Includes(s, sub) ==
  \E i \in 0..(Len(s) - Len(sub)) : SubSeq(s, i + 1, i + Len(sub)) = sub

\* String.prototype.split(sep) for a one-character separator
RECURSIVE SplitFrom(_, _, _)
SplitFrom(s, sep, acc) ==
  IF s = <<>> THEN <<acc>>
  ELSE IF Head(s) = sep THEN <<acc>> \o SplitFrom(Tail(s), sep, <<>>)
  ELSE SplitFrom(Tail(s), sep, Append(acc, Head(s)))

Split(s, sep) == SplitFrom(s, sep, <<>>)

\* the segments path.join keeps of a relative path: '' and '.' are dropped
RECURSIVE DropDots(_)
DropDots(segs) ==
  IF segs = <<>> THEN <<>>
  ELSE IF Head(segs) = <<>> \/ Head(segs) = <<".">> THEN DropDots(Tail(segs))
  ELSE <<Head(segs)>> \o DropDots(Tail(segs))

Segments(path) == DropDots(Split(path, "/"))

(* --------------------------- file system ------------------------------ *)
\* A directory tree is the set of the relative paths of its files.
\* existsSync(join(base, file)): the joined path names a file or a directory
ExistsIn(tree, file) ==
  \E p \in tree :
    LET sp == Segments(p)
        sf == Segments(file)
    IN  /\ Len(sf) <= Len(sp)
        /\ SubSeq(sp, 1, Len(sf)) = sf

\* readdirSync(dir): the names of the top-level entries
ReadDir(tree) == { Head(Segments(p)) : p \in tree }

\* path.join of path segments, as one string
RECURSIVE JoinSegs(_)
JoinSegs(segs) ==
  IF segs = <<>> THEN <<>>
  ELSE IF Len(segs) = 1 THEN Head(segs)
  ELSE Head(segs) \o <<"/">> \o JoinSegs(Tail(segs))

(* ----------------------------- manifests ------------------------------ *)
\* packageJson.bin: absent, a single path, or a name -> path map whose entries
\* are listed in the order the manifest declares them
NoBin          == [form |-> "none",   path |-> <<>>, entries |-> <<>>]
StringBin(p)   == [form |-> "string", path |-> p,    entries |-> <<>>]
ObjectBin(es)  == [form |-> "object", path |-> <<>>, entries |-> es]

ModuleManifest ==
  [name |-> S_modName, version |-> S_version, main |-> S_main, module |-> <<>>,
   types |-> <<>>, bin |-> NoBin, build |-> FALSE, mcpName |-> <<>>]

\* a module that declares no entry point and has a build script
NoMainManifest == [ModuleManifest EXCEPT !.main = <<>>, !.build = TRUE]

\* a scoped module whose entry point is written by the build
BuiltManifest == [ModuleManifest EXCEPT !.build = TRUE, !.name = S_scopedMod]

CliManifest ==
  [name |-> S_cliName, version |-> S_version, main |-> <<>>, module |-> <<>>,
   types |-> <<>>,
   bin |-> ObjectBin(<< [key |-> <<"c","l","i">>, value |-> S_binCli] >>),
   build |-> FALSE, mcpName |-> <<>>]

McpManifest ==
  [name |-> S_srvName, version |-> S_version, main |-> <<>>, module |-> <<>>,
   types |-> <<>>, bin |-> StringBin(S_binServer), build |-> TRUE,
   mcpName |-> S_mcpName]

\* a scoped MCP server
ScopedMcpManifest == [McpManifest EXCEPT !.name = S_scopedSrv]

\* every path a tree of the model can hold
AllPaths ==
  {S_packageJson, S_distIndex, S_binCli, S_binServer, S_env, S_envLocal,
   S_myenvfile, S_srcA, S_checkTests, S_testingA, S_srcsA, S_indexJs}

\* An artifact on disk: its manifest, the files under its root, the files
\* `npm pack` puts in the archive (the `files` whitelist / ignore rules; npm
\* always packs package.json) and the files `npm run build` writes.
World(m, tree, packs, outputs) ==
  [manifest |-> m, tree |-> tree, packs |-> packs, outputs |-> outputs]

\* a complete module (with a testing/ and a srcs/ directory), one without its
\* entry point, one with .env.local and
\* myenvfile, one with .env and src/, one whose src/ is kept out of the
\* archive, one whose entry point is written by the build
W_module   == World(ModuleManifest,
                    {S_packageJson, S_distIndex, S_testingA, S_srcsA},
                    AllPaths, {})
W_noDist   == World(ModuleManifest, {S_packageJson}, AllPaths, {})
\* one without its entry point whose archive holds src/ and .env
W_noDistSrc == World(ModuleManifest, {S_packageJson, S_srcA, S_env},
                     AllPaths, {})
W_envLocal == World(ModuleManifest,
                    {S_packageJson, S_distIndex, S_envLocal, S_myenvfile},
                    AllPaths, {})
W_envSrc   == World(ModuleManifest, {S_packageJson, S_distIndex, S_env, S_srcA},
                    AllPaths, {})
W_filtered == World(ModuleManifest, {S_packageJson, S_distIndex, S_srcA},
                    {S_packageJson, S_distIndex}, {})
W_built    == World(BuiltManifest, {S_packageJson}, AllPaths, {S_distIndex})
\* a module with no `main` whose index.js is written by the build
W_noMain   == World(NoMainManifest, {S_packageJson, S_distIndex}, AllPaths,
                    {S_indexJs})
\* a CLI tool with and without its executable file
W_cli      == World(CliManifest, {S_packageJson, S_binCli}, AllPaths, {})
W_cliNoBin == World(CliManifest, {S_packageJson}, AllPaths, {})
\* an MCP server with its validation module, and one whose server file is
\* written by the build
W_mcp      == World(McpManifest, {S_packageJson, S_binServer, S_checkTests},
                    AllPaths, {})
W_mcpBuilt == World(ScopedMcpManifest, {S_packageJson}, AllPaths,
                    {S_binServer})

\* caller-supplied extra required paths
S_extras == <<S_readme, S_license>>

\* A checker under construction: the artifact, the extra required paths, the
\* validation routine path ('' when none) and whether the validation module
\* exports testMcpServer.
Setup(w, extra, tf, exported) ==
  [world |-> w, extra |-> extra, testFile |-> tf, exported |-> exported]

Setups ==
  { Setup(W_module,   <<>>,     <<>>,         FALSE),
    Setup(W_noDist,   <<>>,     <<>>,         FALSE),
    Setup(W_noDistSrc, S_extras, <<>>,        FALSE),
    Setup(W_envLocal, <<>>,     <<>>,         FALSE),
    Setup(W_envSrc,   <<>>,     <<>>,         FALSE),
    Setup(W_filtered, <<>>,     <<>>,         FALSE),
    Setup(W_built,    <<>>,     <<>>,         FALSE),
    Setup(W_noMain,   <<>>,     <<>>,         FALSE),
    Setup(W_cli,      <<>>,     <<>>,         FALSE),
    Setup(W_cliNoBin, S_extras, S_checkTests, TRUE),
    Setup(W_mcp,      <<>>,     <<>>,         FALSE),
    Setup(W_mcp,      <<>>,     S_checkTests, TRUE),
    Setup(W_mcp,      <<>>,     S_checkTests, FALSE),
    Setup(W_mcpBuilt, <<>>,     S_checkTests, TRUE) }

\* every combination of the six per-stage skip flags of VerifyConfig
AllSkipFlags ==
  [skipBuild : BOOLEAN, skipCheckRequiredFiles : BOOLEAN, skipPackage : BOOLEAN,
   skipCheckImport : BOOLEAN, skipCheckBin : BOOLEAN,
   skipCheckMcpServer : BOOLEAN]

\* the combinations explored: no flag set, exactly one set (one stage
\* skipped), all but one set (one stage runs alone), all set
SkipFlags ==
  { f \in AllSkipFlags :
      Cardinality({k \in DOMAIN f : f[k]}) \in {0, 1, 5, 6} }

(* ----------------------- configuration objects ------------------------ *)
\* A property of a configuration object is undefined (<<>>) or holds one
\* value (<<v>>).
Undefined == <<>>
Some(v)   == <<v>>

\* the skip flags mergeConfig knows, and every property a caller or a config
\* file can give
MergedFlags ==
  {"skipBuild", "skipCheckRequiredFiles", "skipPackage", "skipCheckImport",
   "skipCheckBin"}

InputKeys ==
  MergedFlags \cup {"skipCheckMcpServer", "requiredFiles", "testFile",
                    "packageDir", "logger"}

\* the object {}
EmptyObject == [k \in InputKeys |-> Undefined]

(* ------------------------------- state -------------------------------- *)
VARIABLES
  config,       \* this.config: skip flags, requiredFiles, testFile
  packageJson,  \* this.packageJson: the parsed manifest
  packageInfo,  \* this.packageInfo
  errors,       \* this.errors
  log,          \* lines the current check() call wrote to the logger
  pc,           \* position of the check() call in progress ("idle": none)
  testDir,      \* local testDir of the running stage (0: null / not created)
  tarballPath,  \* local tarballPath of the running stage (FALSE: null)
  cluster,      \* local cluster of verifyMcpServer (FALSE: null)
  client,       \* local client of verifyMcpServer (FALSE: null)
  tree,         \* files under the artifact root (the archive excepted)
  env,          \* what npm pack keeps, what the build writes, what the
                \* validation module exports
  dirs,         \* workspace directories on disk (mkdtemp ids)
  tarball,      \* TRUE while the archive file is on disk
  installed,    \* files of the copy installed by the latest npm install
  nextDir,      \* next id mkdtempSync hands out
  faults,       \* environment faults so far
  runs,         \* check() calls started
  reports,      \* the reports returned so far, oldest first
  ops,          \* external operations of the current check() call, in order
  cliConfig,    \* the explicit configuration handed to mergeConfig
  fileConfig,   \* what loadConfig returned
  mergedConfig, \* what mergeConfig returned
  serverName    \* what the latest direct getServerName() call returned

vars ==
  <<config, packageJson, packageInfo, errors, log, pc, testDir, tarballPath,
    cluster, client, tree, env, dirs, tarball, installed, nextDir, faults,
    runs, reports, ops, cliConfig, fileConfig, mergedConfig, serverName>>

cliVars     == <<cliConfig, fileConfig, mergedConfig>>
checkerVars == <<config, packageJson, packageInfo>>
localVars   == <<testDir, tarballPath, cluster, client>>
diskVars    == <<tree, dirs, tarball, installed, nextDir>>

(* ------------------------- pure functions ----------------------------- *)
Last(seq) == seq[Len(seq)]

\* a name extraction that keeps what follows the first '/'
getServerNameFirstSlash(pj) ==
  IF pj.mcpName # <<>>
  THEN LET parts == Split(pj.mcpName, "/")
       IN  IF Len(parts) >= 2 /\ parts[2] # <<>> THEN parts[2] ELSE pj.mcpName
  ELSE IF StartsWith(pj.name, <<"@">>)
  THEN LET parts == Split(pj.name, "/")
       IN  IF Len(parts) >= 2 /\ parts[2] # <<>> THEN parts[2] ELSE pj.name
  ELSE pj.name

\* a name extraction that keeps the scope of the package name
getServerNameKeepsScope(pj) ==
  IF pj.mcpName # <<>>
  THEN LET parts == Split(pj.mcpName, "/")
       IN  IF Last(parts) # <<>> THEN Last(parts) ELSE pj.mcpName
  ELSE pj.name

\* getServerName(): parts[parts.length - 1] || mcpName, else the package
\* name without its scope
getServerName(pj) ==
  IF pj.mcpName # <<>>
  THEN LET parts == Split(pj.mcpName, "/")
       IN  IF Last(parts) # <<>> THEN Last(parts) ELSE pj.mcpName
  ELSE IF StartsWith(pj.name, <<"@">>)
  THEN LET parts == Split(pj.name, "/")
       IN  IF Len(parts) >= 2 /\ parts[2] # <<>> THEN parts[2] ELSE pj.name
  ELSE pj.name

\* a detection that looks at bin before mcpName
detectPackageTypeBinFirst(pj) ==
  IF pj.bin.form # "none"
  THEN [type |-> "cli", name |-> pj.name, version |-> pj.version,
        serverName |-> <<>>, mcpName |-> <<>>, main |-> pj.main]
  ELSE IF pj.mcpName # <<>>
  THEN [type |-> "mcp-server", name |-> pj.name, version |-> pj.version,
        serverName |-> getServerName(pj), mcpName |-> pj.mcpName,
        main |-> pj.main]
  ELSE [type |-> "module", name |-> pj.name, version |-> pj.version,
        serverName |-> <<>>, mcpName |-> <<>>, main |-> pj.main]

\* detectPackageType()
detectPackageType(pj) ==
  IF pj.mcpName # <<>>
  THEN [type |-> "mcp-server", name |-> pj.name, version |-> pj.version,
        serverName |-> getServerName(pj), mcpName |-> pj.mcpName,
        main |-> pj.main]
  ELSE IF pj.bin.form # "none"
  THEN [type |-> "cli", name |-> pj.name, version |-> pj.version,
        serverName |-> <<>>, mcpName |-> <<>>, main |-> pj.main]
  ELSE [type |-> "module", name |-> pj.name, version |-> pj.version,
        serverName |-> <<>>, mcpName |-> <<>>, main |-> pj.main]

\* the decimal digits, and the value of a string of digits
Digits == <<"0","1","2","3","4","5","6","7","8","9">>

IsDigit(c) == \E d \in 1..10 : Digits[d] = c

RECURSIVE ToNat(_)
ToNat(s) ==
  IF s = <<>> THEN 0
  ELSE ToNat(SubSeq(s, 1, Len(s) - 1)) * 10
         + ((CHOOSE d \in 1..10 : Digits[d] = s[Len(s)]) - 1)

\* a property key that is an array index: the canonical decimal form of an
\* integer (keys of the model are shorter than ten characters, so every such
\* integer is below 2^32 - 1)
IsArrayIndex(key) ==
  /\ key # <<>>
  /\ Len(key) <= 9
  /\ \A i \in DOMAIN key : IsDigit(key[i])
  /\ (Len(key) = 1 \/ key[1] # "0")

\* entries whose keys are array indices, in ascending numeric order
RECURSIVE AscendingIndex(_)
AscendingIndex(es) ==
  IF es = <<>> THEN <<>>
  ELSE LET m == CHOOSE i \in DOMAIN es :
                  \A j \in DOMAIN es : ToNat(es[i].key) <= ToNat(es[j].key)
       IN  <<es[m]>> \o AscendingIndex(SubSeq(es, 1, m - 1)
                                         \o SubSeq(es, m + 1, Len(es)))

\* the own properties of the parsed bin object in the order Object.keys and
\* Object.values enumerate them: array-index keys first, in ascending numeric
\* order, then the other keys in the order they were declared
OwnEntries(bin) ==
  AscendingIndex(SelectSeq(bin.entries, LAMBDA e : IsArrayIndex(e.key)))
    \o SelectSeq(bin.entries, LAMBDA e : ~IsArrayIndex(e.key))

\* Object.values(bin)
BinValues(bin) == [i \in 1..Len(bin.entries) |-> OwnEntries(bin)[i].value]

\* Object.keys(bin)
BinKeys(bin) == [i \in 1..Len(bin.entries) |-> OwnEntries(bin)[i].key]

\* a resolver that puts the caller's extra paths before the manifest's
getRequiredFilesExtrasFirst(pj, cfg) ==
  <<S_packageJson>>
    \o cfg.requiredFiles
    \o (IF pj.main # <<>> THEN <<pj.main>> ELSE <<>>)
    \o (IF pj.module # <<>> THEN <<pj.module>> ELSE <<>>)
    \o (IF pj.types # <<>> THEN <<pj.types>> ELSE <<>>)
    \o (IF pj.bin.form = "string" THEN <<pj.bin.path>>
        ELSE IF pj.bin.form = "object" THEN BinValues(pj.bin)
        ELSE <<>>)

\* a resolver that forgets the primary entry point
getRequiredFilesNoMain(pj, cfg) ==
  <<S_packageJson>>
    \o (IF pj.module # <<>> THEN <<pj.module>> ELSE <<>>)
    \o (IF pj.types # <<>> THEN <<pj.types>> ELSE <<>>)
    \o (IF pj.bin.form = "string" THEN <<pj.bin.path>>
        ELSE IF pj.bin.form = "object" THEN BinValues(pj.bin)
        ELSE <<>>)
    \o cfg.requiredFiles

\* getRequiredFiles()
getRequiredFiles(pj, cfg) ==
  <<S_packageJson>>
    \o (IF pj.main # <<>> THEN <<pj.main>> ELSE <<>>)
    \o (IF pj.module # <<>> THEN <<pj.module>> ELSE <<>>)
    \o (IF pj.types # <<>> THEN <<pj.types>> ELSE <<>>)
    \o (IF pj.bin.form = "string" THEN <<pj.bin.path>>
        ELSE IF pj.bin.form = "object" THEN BinValues(pj.bin)
        ELSE <<>>)
    \o cfg.requiredFiles

\* a lookup that leaves the scope directory out
getInstalledPackagePathNoScope(pj) ==
  IF StartsWith(pj.name, <<"@">>)
  THEN LET parts == Split(pj.name, "/")
       IN  JoinSegs(<<S_nodeModules, parts[2]>>)
  ELSE JoinSegs(<<S_nodeModules, pj.name>>)

\* getInstalledPackagePath(testDir), relative to testDir
getInstalledPackagePath(pj) ==
  IF StartsWith(pj.name, <<"@">>)
  THEN LET parts == Split(pj.name, "/")
       IN  JoinSegs(<<S_nodeModules, parts[1], parts[2]>>)
  ELSE JoinSegs(<<S_nodeModules, pj.name>>)

(* ----------------------------- messages ------------------------------- *)
\* An ErrorLog entry is the string `${tag}: Error: ${cause}: ${detail}` (the
\* cause and the detail may be missing); it is kept in its three parts.
Err(tag, cause, detail) == [tag |-> tag, cause |-> cause, detail |-> detail]

\* a line written to the logger: a fixed text, or an error of the summary
Line(text)   == [text |-> text, err |-> Err("", "", <<>>)]
ErrLine(e)   == [text |-> "error", err |-> e]

\* an external operation of the run: which stage called it and how it ended
Op(stage, name, ok) == [stage |-> stage, op |-> name, ok |-> ok]

\* the outcomes an external operation can have: it fails when its input makes
\* it fail, and otherwise succeeds unless the environment faults
Outcomes(mustFail) ==
  IF mustFail THEN {"fail"}
  ELSE IF faults < MaxFaults THEN {"ok", "fault"}
  ELSE {"ok"}

Charge(outcome) == faults' = IF outcome = "fault" THEN faults + 1 ELSE faults

(* ---------------------------- constructor ----------------------------- *)
\* the runtime skip flag that belongs to the kind of a manifest
OwnFlagOf(m) ==
  CASE detectPackageType(m).type = "module" -> "skipCheckImport"
    [] detectPackageType(m).type = "cli"    -> "skipCheckBin"
    [] OTHER                                -> "skipCheckMcpServer"

\* the only flag set is the runtime flag of another kind
ForeignFlagAlone(m, flags) ==
  \E f \in {"skipCheckImport", "skipCheckBin", "skipCheckMcpServer"} \ {OwnFlagOf(m)} :
    \A k \in DOMAIN flags : flags[k] <=> k = f

\* the setups on which a foreign runtime flag is explored on its own: the
\* complete artifact of each kind, with no extra path and no validation module
PlainSetups ==
  { Setup(W_module, <<>>, <<>>, FALSE),
    Setup(W_cli,    <<>>, <<>>, FALSE),
    Setup(W_mcp,    <<>>, <<>>, FALSE) }

\* new CheckPrepublish(config) over an artifact whose package.json exists
\* and parses
Init ==
  \E s \in Setups, flags \in SkipFlags :
    /\ ForeignFlagAlone(s.world.manifest, flags) => s \in PlainSetups
    /\ config = [skip |-> flags, requiredFiles |-> s.extra,
                 testFile |-> s.testFile]
    /\ packageJson = s.world.manifest
    /\ packageInfo = detectPackageType(s.world.manifest)
    /\ errors = <<>>
    /\ log = <<>>
    /\ pc = "idle"
    /\ testDir = 0
    /\ tarballPath = FALSE
    /\ cluster = FALSE
    /\ client = FALSE
    /\ tree = s.world.tree
    /\ env = [packs |-> s.world.packs, outputs |-> s.world.outputs,
              exported |-> s.exported]
    /\ dirs = {}
    /\ tarball = FALSE
    /\ installed = {}
    /\ nextDir = 1
    /\ faults = 0
    /\ runs = 0
    /\ reports = <<>>
    /\ ops = <<>>
    /\ cliConfig = EmptyObject
    /\ fileConfig = EmptyObject
    /\ mergedConfig = EmptyObject
    /\ serverName = Undefined

(* ------------------------------ check() ------------------------------- *)
\* a check() that keeps the ErrorLog of the previous call
checkKeepsErrors ==
  /\ pc = "idle"
  /\ runs < MaxRuns
  /\ runs' = runs + 1
  /\ errors' = errors
  /\ log' = <<Line("Verifying")>>
  /\ ops' = <<>>
  /\ pc' = "build"
  /\ UNCHANGED <<cliVars, serverName, checkerVars, localVars, diskVars, env, faults, reports>>

\* a check() that empties the array the last report still refers to
\* (this.errors.length = 0) instead of assigning a new one
checkClearsInPlace ==
  /\ pc = "idle"
  /\ runs < MaxRuns
  /\ runs' = runs + 1
  /\ errors' = <<>>
  /\ reports' = [i \in DOMAIN reports |->
                   IF i = Len(reports) THEN [reports[i] EXCEPT !.errors = <<>>]
                   ELSE reports[i]]
  /\ log' = <<Line("Verifying")>>
  /\ ops' = <<>>
  /\ pc' = "build"
  /\ UNCHANGED <<cliVars, serverName, checkerVars, localVars, diskVars, env, faults>>

\* check(), up to the first stage: the ErrorLog is reset
check ==
  /\ pc = "idle"
  /\ runs < MaxRuns
  /\ runs' = runs + 1
  /\ errors' = <<>>
  /\ log' = <<Line("Verifying")>>
  /\ ops' = <<>>
  /\ pc' = "build"
  /\ UNCHANGED <<cliVars, serverName, checkerVars, localVars, diskVars, env, faults, reports>>

\* a Stage 1 that logs a failed build without recording it
verifyBuildSilent ==
  /\ pc = "build"
  /\ pc' = "files"
  /\ IF config.skip.skipBuild
     THEN /\ log' = log \o <<Line("Step 1"), Line("Skipped")>>
          /\ UNCHANGED <<errors, tree, ops, faults>>
     ELSE IF ~packageJson.build
     THEN /\ log' = log \o <<Line("Step 1"), Line("No build script found")>>
          /\ UNCHANGED <<errors, tree, ops, faults>>
     ELSE \E o \in Outcomes(FALSE) :
            /\ Charge(o)
            /\ ops' = Append(ops, Op("build", "npm run build", o = "ok"))
            /\ IF o = "ok"
               THEN /\ tree' = tree \cup env.outputs
                    /\ log' = log \o <<Line("Step 1"), Line("Build successful")>>
                    /\ UNCHANGED errors
               ELSE /\ errors' = errors
                    /\ log' = log \o <<Line("Step 1"), Line("Build failed")>>
                    /\ UNCHANGED tree
  /\ UNCHANGED <<cliVars, serverName, checkerVars, localVars, env, dirs, tarball, installed,
                 nextDir, runs, reports>>

\* verifyBuild()
verifyBuild ==
  /\ pc = "build"
  /\ pc' = "files"
  /\ IF config.skip.skipBuild
     THEN /\ log' = log \o <<Line("Step 1"), Line("Skipped")>>
          /\ UNCHANGED <<errors, tree, ops, faults>>
     ELSE IF ~packageJson.build
     THEN /\ log' = log \o <<Line("Step 1"), Line("No build script found")>>
          /\ UNCHANGED <<errors, tree, ops, faults>>
     ELSE \E o \in Outcomes(FALSE) :
            /\ Charge(o)
            /\ ops' = Append(ops, Op("build", "npm run build", o = "ok"))
            /\ IF o = "ok"
               THEN /\ tree' = tree \cup env.outputs
                    /\ log' = log \o <<Line("Step 1"), Line("Build successful")>>
                    /\ UNCHANGED errors
               ELSE /\ errors' = Append(errors,
                                   Err("Build failed", "Command failed", <<>>))
                    /\ log' = log \o <<Line("Step 1"), Line("Build failed")>>
                    /\ UNCHANGED tree
  /\ UNCHANGED <<cliVars, serverName, checkerVars, localVars, env, dirs, tarball, installed,
                 nextDir, runs, reports>>

\* a loop that stops at the first missing file
RECURSIVE MissingErrorsFirstOnly(_, _)
MissingErrorsFirstOnly(files, root) ==
  IF files = <<>> THEN <<>>
  ELSE IF ExistsIn(root, Head(files))
  THEN MissingErrorsFirstOnly(Tail(files), root)
  ELSE <<Err("Missing required file", "", Head(files))>>

\* the entries verifyRequiredFiles appends for the files of a list: one per
\* missing file, none for a file that exists
RECURSIVE MissingErrors(_, _)
MissingErrors(files, root) ==
  IF files = <<>> THEN <<>>
  ELSE (IF ExistsIn(root, Head(files)) THEN <<>>
        ELSE <<Err("Missing required file", "", Head(files))>>)
       \o MissingErrors(Tail(files), root)

\* verifyRequiredFiles()
verifyRequiredFiles ==
  /\ pc = "files"
  /\ pc' = "package"
  /\ IF config.skip.skipCheckRequiredFiles
     THEN /\ log' = log \o <<Line("Step 2"), Line("Skipped")>>
          /\ UNCHANGED errors
     ELSE /\ errors' = errors \o MissingErrors(getRequiredFiles(packageJson, config), tree)
          /\ log' = log \o <<Line("Step 2"), Line("Verifying required files")>>
  /\ UNCHANGED <<cliVars, serverName, checkerVars, localVars, diskVars, env, faults, runs, reports,
                 ops>>

(* ----------------------- Stage 3: verifyPackage ----------------------- *)
EXCLUDED_PATHS == <<S_src, S_test, S_env>>

\* what `npm pack` followed by `npm install` leaves in the installed copy
PackedFiles == (tree \cap env.packs) \cup {S_packageJson}

\* the workspace after `npm install <tarball>`: npm puts the files of the
\* archive under node_modules/<package name>, relative to testDir
InstalledTree(inst, name) ==
  { JoinSegs(<<S_nodeModules>> \o Split(name, "/") \o Segments(p)) : p \in inst }

\* the files of a workspace that lie under dir, relative to dir
FilesUnder(files, dir) ==
  { SubSeq(f, Len(dir) + 2, Len(f)) :
      f \in { g \in files : StartsWith(g, dir \o <<"/">>) } }

\* what existsSync(join(packageDir, file)) and import(join(packageDir, file))
\* see: the files under packageDir = getInstalledPackagePath(testDir)
packageDir ==
  FilesUnder(InstalledTree(installed, packageJson.name),
             getInstalledPackagePath(packageJson))

\* the first file of the list that is missing from the installed copy, as a
\* one-element sequence (empty when every file is there)
RECURSIVE FirstMissing(_, _)
FirstMissing(files, inst) ==
  IF files = <<>> THEN <<>>
  ELSE IF ~ExistsIn(inst, Head(files)) THEN <<Head(files)>>
  ELSE FirstMissing(Tail(files), inst)

\* an excluded-path loop that matches every entry by prefix
RECURSIVE ExcludedFoundByPrefix(_, _)
ExcludedFoundByPrefix(paths, inst) ==
  IF paths = <<>> THEN {}
  ELSE LET path == Head(paths)
           hits == { f \in ReadDir(inst) : StartsWith(f, path) }
       IN  IF hits # {} THEN hits
           ELSE ExcludedFoundByPrefix(Tail(paths), inst)

\* the excluded-path loop of verifyPackage: the names it can throw with (the
\* order of readdirSync is not fixed), {} when the loop ends without throwing
RECURSIVE ExcludedFound(_, _)
ExcludedFound(paths, inst) ==
  IF paths = <<>> THEN {}
  ELSE LET path == Head(paths)
           hits == { f \in ReadDir(inst) : StartsWith(f, path) }
       IN  IF ExistsIn(inst, path)
           THEN IF StartsWith(path, <<".">>)
                THEN IF hits # {} THEN hits
                     ELSE ExcludedFound(Tail(paths), inst)
                ELSE {path}
           ELSE ExcludedFound(Tail(paths), inst)

\* a catch block that gives up the run: the runtime stage is not entered
verifyPackageCatchAborts(cause, detail) ==
  /\ errors' = Append(errors, Err("Package verification failed", cause, detail))
  /\ pc' = "summary"

\* a catch block that records the failure twice
verifyPackageCatchTwice(cause, detail) ==
  /\ errors' = errors \o <<Err("Package verification failed", cause, detail),
                           Err("Package verification failed", cause, detail)>>
  /\ pc' = "pkg_finally"

\* a catch block that puts its entry at the head of the ErrorLog
verifyPackageCatchPrepends(cause, detail) ==
  /\ errors' = <<Err("Package verification failed", cause, detail)>> \o errors
  /\ pc' = "pkg_finally"

\* the catch block of verifyPackage
verifyPackageCatch(cause, detail) ==
  /\ errors' = Append(errors, Err("Package verification failed", cause, detail))
  /\ pc' = "pkg_finally"

\* a Stage 3 whose skip flag also skips Stage 4
verifyPackageSkipsRuntime ==
  /\ pc = "package"
  /\ IF config.skip.skipPackage
     THEN /\ log' = log \o <<Line("Step 3"), Line("Skipped")>>
          /\ pc' = "summary"
     ELSE /\ log' = log \o <<Line("Step 3")>>
          /\ pc' = "pkg_pack"
  /\ testDir' = 0
  /\ tarballPath' = FALSE
  /\ UNCHANGED <<cliVars, serverName, checkerVars, errors, cluster, client, diskVars, env, faults,
                 runs, reports, ops>>

\* verifyPackage(), entry: the skip test
verifyPackage ==
  /\ pc = "package"
  /\ IF config.skip.skipPackage
     THEN /\ log' = log \o <<Line("Step 3"), Line("Skipped")>>
          /\ pc' = "runtime"
     ELSE /\ log' = log \o <<Line("Step 3")>>
          /\ pc' = "pkg_pack"
  /\ testDir' = 0
  /\ tarballPath' = FALSE
  /\ UNCHANGED <<cliVars, serverName, checkerVars, errors, cluster, client, diskVars, env, faults,
                 runs, reports, ops>>

\* verifyPackage(): execSync('npm pack --silent')
verifyPackagePack ==
  /\ pc = "pkg_pack"
  /\ \E o \in Outcomes(FALSE) :
       /\ Charge(o)
       /\ ops' = Append(ops, Op("package", "npm pack", o = "ok"))
       /\ IF o = "ok"
          THEN /\ tarball' = TRUE
               /\ tarballPath' = TRUE
               /\ pc' = "pkg_mkdtemp"
               /\ UNCHANGED errors
          ELSE /\ verifyPackageCatch("Command failed: npm pack", <<>>)
               /\ UNCHANGED <<tarball, tarballPath>>
  /\ UNCHANGED <<cliVars, serverName, checkerVars, log, testDir, cluster, client, tree, env, dirs,
                 installed, nextDir, runs, reports>>

\* verifyPackage(): mkdtempSync(join(getTmpDir(), 'pkg-check-'))
verifyPackageMkdtemp ==
  /\ pc = "pkg_mkdtemp"
  /\ \E o \in Outcomes(FALSE) :
       /\ Charge(o)
       /\ ops' = Append(ops, Op("package", "mkdtemp", o = "ok"))
       /\ IF o = "ok"
          THEN /\ dirs' = dirs \cup {nextDir}
               /\ testDir' = nextDir
               /\ nextDir' = nextDir + 1
               /\ pc' = "pkg_init"
               /\ UNCHANGED errors
          ELSE /\ verifyPackageCatch("mkdtemp failed", <<>>)
               /\ UNCHANGED <<dirs, testDir, nextDir>>
  /\ UNCHANGED <<cliVars, serverName, checkerVars, log, tarballPath, cluster, client, tree, env,
                 tarball, installed, runs, reports>>

\* verifyPackage(): execSync('npm init -y', { cwd: testDir })
verifyPackageInit ==
  /\ pc = "pkg_init"
  /\ \E o \in Outcomes(FALSE) :
       /\ Charge(o)
       /\ ops' = Append(ops, Op("package", "npm init", o = "ok"))
       /\ IF o = "ok"
          THEN /\ pc' = "pkg_install"
               /\ UNCHANGED errors
          ELSE verifyPackageCatch("Command failed: npm init -y", <<>>)
  /\ UNCHANGED <<cliVars, serverName, checkerVars, log, localVars, diskVars, env, runs, reports>>

\* verifyPackage(): execSync(`npm install "${tarballPath}" --production`)
verifyPackageInstall ==
  /\ pc = "pkg_install"
  /\ \E o \in Outcomes(FALSE) :
       /\ Charge(o)
       /\ ops' = Append(ops, Op("package", "npm install", o = "ok"))
       /\ IF o = "ok"
          THEN /\ installed' = PackedFiles
               /\ pc' = "pkg_verify"
               /\ UNCHANGED errors
          ELSE /\ verifyPackageCatch("Command failed: npm install", <<>>)
               /\ UNCHANGED installed
  /\ UNCHANGED <<cliVars, serverName, checkerVars, log, localVars, tree, env, dirs, tarball,
                 nextDir, runs, reports>>

\* a structure check that goes through the whole list, as Stage 2 does
verifyPackageStructureExhaustive ==
  /\ pc = "pkg_verify"
  /\ LET files == getRequiredFiles(packageJson, config)
         miss  == SelectSeq(files, LAMBDA f : ~ExistsIn(packageDir, f))
         excl  == ExcludedFound(EXCLUDED_PATHS, packageDir)
     IN  IF miss # <<>>
         THEN /\ errors' = errors \o
                   [i \in 1..Len(miss) |->
                      Err("Package verification failed",
                          "Missing file in installed package", miss[i])]
              /\ pc' = "pkg_finally"
              /\ UNCHANGED log
         ELSE IF excl # {}
         THEN /\ \E f \in excl :
                   verifyPackageCatch("File/directory should NOT be in package", f)
              /\ log' = Append(log, Line("Required files present"))
         ELSE /\ log' = log \o <<Line("Required files present"),
                                 Line("Excluded files not in package")>>
              /\ pc' = "pkg_finally"
              /\ UNCHANGED errors
  /\ UNCHANGED <<cliVars, serverName, checkerVars, localVars, diskVars, env, faults, runs, reports,
                 ops>>

\* verifyPackage(): the required-file loop, then the excluded-path loop, over
\* the installed copy
verifyPackageStructure ==
  /\ pc = "pkg_verify"
  /\ LET miss == FirstMissing(getRequiredFiles(packageJson, config), packageDir)
         excl == ExcludedFound(EXCLUDED_PATHS, packageDir)
     IN  IF miss # <<>>
         THEN /\ verifyPackageCatch("Missing file in installed package", miss[1])
              /\ UNCHANGED log
         ELSE IF excl # {}
         THEN /\ \E f \in excl :
                   verifyPackageCatch("File/directory should NOT be in package", f)
              /\ log' = Append(log, Line("Required files present"))
         ELSE /\ log' = log \o <<Line("Required files present"),
                                 Line("Excluded files not in package")>>
              /\ pc' = "pkg_finally"
              /\ UNCHANGED errors
  /\ UNCHANGED <<cliVars, serverName, checkerVars, localVars, diskVars, env, faults, runs, reports,
                 ops>>

\* a finally block that removes the archive but leaves the workspace
CleanupKeepsDir(stage, okDir, okTar) ==
  /\ (testDir = 0 => okDir) /\ (~tarballPath => okTar)
  /\ LET n == (IF okDir THEN 0 ELSE 1) + (IF okTar THEN 0 ELSE 1)
     IN  /\ faults + n <= MaxFaults
         /\ faults' = faults + n
  /\ dirs' = dirs
  /\ tarball' = IF tarballPath /\ okTar THEN FALSE ELSE tarball
  /\ ops' = ops
       \o (IF tarballPath THEN <<Op(stage, "rm tarball", okTar)>> ELSE <<>>)
  /\ log' = log
       \o (IF okTar THEN <<>> ELSE <<Line("Warning: Failed to cleanup tarball")>>)

\* the two removals of a finally block: rmSync(testDir, { recursive, force })
\* if testDir, then rmSync(tarballPath, { force }) if tarballPath; a removal
\* that throws is logged as a warning
Cleanup(stage, okDir, okTar) ==
  /\ (testDir = 0 => okDir) /\ (~tarballPath => okTar)
  /\ LET n == (IF okDir THEN 0 ELSE 1) + (IF okTar THEN 0 ELSE 1)
     IN  /\ faults + n <= MaxFaults
         /\ faults' = faults + n
  /\ dirs' = IF testDir # 0 /\ okDir THEN dirs \ {testDir} ELSE dirs
  /\ tarball' = IF tarballPath /\ okTar THEN FALSE ELSE tarball
  /\ ops' = ops
       \o (IF testDir # 0 THEN <<Op(stage, "rm testDir", okDir)>> ELSE <<>>)
       \o (IF tarballPath THEN <<Op(stage, "rm tarball", okTar)>> ELSE <<>>)
  /\ log' = log
       \o (IF okDir THEN <<>> ELSE <<Line("Warning: Failed to cleanup test directory")>>)
       \o (IF okTar THEN <<>> ELSE <<Line("Warning: Failed to cleanup tarball")>>)

\* a finally block that removes the archive and leaves the workspace of
\* Stage 3 in place for Stage 4
verifyPackageFinallyKeepsWorkspace ==
  /\ pc = "pkg_finally"
  /\ \E okDir \in {TRUE}, okTar \in BOOLEAN :
       CleanupKeepsDir("package", okDir, okTar)
  /\ pc' = "runtime"
  /\ testDir' = 0
  /\ tarballPath' = FALSE
  /\ UNCHANGED <<cliVars, serverName, checkerVars, errors, cluster, client, tree, env, installed,
                 nextDir, runs, reports>>

\* verifyPackage(): the finally block
verifyPackageFinally ==
  /\ pc = "pkg_finally"
  /\ \E okDir \in BOOLEAN, okTar \in BOOLEAN : Cleanup("package", okDir, okTar)
  /\ pc' = "runtime"
  /\ testDir' = 0
  /\ tarballPath' = FALSE
  /\ UNCHANGED <<cliVars, serverName, checkerVars, errors, cluster, client, tree, env, installed,
                 nextDir, runs, reports>>

(* ----------------------- Stage 4: verifyRuntime ----------------------- *)
\* a dispatch that takes the module branch for every kind
verifyRuntimeAlwaysModule ==
  /\ pc = "runtime"
  /\ log' = Append(log, Line("Step 4"))
  /\ pc' = "mod"
  /\ UNCHANGED <<cliVars, serverName, checkerVars, errors, localVars, diskVars, env, faults, runs,
                 reports, ops>>

\* verifyRuntime(): the switch on packageInfo.type
verifyRuntime ==
  /\ pc = "runtime"
  /\ log' = Append(log, Line("Step 4"))
  /\ pc' = CASE packageInfo.type = "module"     -> "mod"
             [] packageInfo.type = "cli"        -> "cli"
             [] packageInfo.type = "mcp-server" -> "mcp"
             [] OTHER                           -> "summary"
  /\ UNCHANGED <<cliVars, serverName, checkerVars, errors, localVars, diskVars, env, faults, runs,
                 reports, ops>>

\* one step of a try block that calls an external operation with outcome o:
\* on success the block goes on at `next`; on failure the caller's catch
\* block runs
TryStep(stage, name, o, next) ==
  /\ Charge(o)
  /\ ops' = Append(ops, Op(stage, name, o = "ok"))
  /\ o = "ok" => (pc' = next /\ UNCHANGED errors)

\* --- module ---
\* no catch block: the failure leaves verifyModuleImport and rejects check()
verifyModuleImportUncaught(cause, detail) ==
  /\ errors' = errors
  /\ pc' = "rejected"

\* the catch block of verifyModuleImport: no removal follows it
verifyModuleImportCatch(cause, detail) ==
  /\ errors' = Append(errors, Err("Failed to import module", cause, detail))
  /\ pc' = "summary"

\* verifyModuleImport(), entry: the skip test
verifyModuleImport ==
  /\ pc = "mod"
  /\ IF config.skip.skipCheckImport
     THEN /\ log' = Append(log, Line("Skipped"))
          /\ pc' = "summary"
     ELSE /\ log' = log
          /\ pc' = "mod_mkdtemp"
  /\ testDir' = 0
  /\ tarballPath' = FALSE
  /\ UNCHANGED <<cliVars, serverName, checkerVars, errors, cluster, client, diskVars, env, faults,
                 runs, reports, ops>>

\* verifyModuleImport(): mkdtempSync
verifyModuleImportMkdtemp ==
  /\ pc = "mod_mkdtemp"
  /\ \E o \in Outcomes(FALSE) :
       /\ Charge(o)
       /\ ops' = Append(ops, Op("runtime", "mkdtemp", o = "ok"))
       /\ IF o = "ok"
          THEN /\ dirs' = dirs \cup {nextDir}
               /\ testDir' = nextDir
               /\ nextDir' = nextDir + 1
               /\ pc' = "mod_pack"
               /\ UNCHANGED errors
          ELSE /\ verifyModuleImportCatch("mkdtemp failed", <<>>)
               /\ UNCHANGED <<dirs, testDir, nextDir>>
  /\ UNCHANGED <<cliVars, serverName, checkerVars, log, tarballPath, cluster, client, tree, env,
                 tarball, installed, runs, reports>>

\* verifyModuleImport(): execSync('npm pack --silent')
verifyModuleImportPack ==
  /\ pc = "mod_pack"
  /\ \E o \in Outcomes(FALSE) :
       /\ Charge(o)
       /\ ops' = Append(ops, Op("runtime", "npm pack", o = "ok"))
       /\ IF o = "ok"
          THEN /\ tarball' = TRUE
               /\ tarballPath' = TRUE
               /\ pc' = "mod_init"
               /\ UNCHANGED errors
          ELSE /\ verifyModuleImportCatch("Command failed: npm pack", <<>>)
               /\ UNCHANGED <<tarball, tarballPath>>
  /\ UNCHANGED <<cliVars, serverName, checkerVars, log, testDir, cluster, client, tree, env, dirs,
                 installed, nextDir, runs, reports>>

\* verifyModuleImport(): execSync('npm init -y')
verifyModuleImportInit ==
  /\ pc = "mod_init"
  /\ \E o \in Outcomes(FALSE) :
       /\ TryStep("runtime", "npm init", o, "mod_install")
       /\ o # "ok" =>
            verifyModuleImportCatch("Command failed: npm init -y", <<>>)
  /\ UNCHANGED <<cliVars, serverName, checkerVars, log, localVars, diskVars, env, runs, reports>>

\* verifyModuleImport(): execSync(`npm install "${tarballPath}" ...`)
verifyModuleImportInstall ==
  /\ pc = "mod_install"
  /\ \E o \in Outcomes(FALSE) :
       /\ TryStep("runtime", "npm install", o, "mod_import")
       /\ o # "ok" =>
            verifyModuleImportCatch("Command failed: npm install", <<>>)
  /\ installed' = IF pc' = "mod_import" THEN PackedFiles ELSE installed
  /\ UNCHANGED <<cliVars, serverName, checkerVars, log, localVars, tree, env, dirs, tarball,
                 nextDir, runs, reports>>

\* an entry point taken from the manifest alone, with no default
mainFileNoDefault(pj) == pj.main

\* the file verifyModuleImport loads: packageJson.main || './index.js'
mainFile(pj) == IF pj.main # <<>> THEN pj.main ELSE S_indexJs

\* join(packageDir, mainFile), relative to testDir
modulePath(pj) ==
  JoinSegs(Segments(getInstalledPackagePath(pj)) \o Segments(mainFile(pj)))

\* verifyModuleImport(): await import(modulePath); a file that is not in the
\* installed copy cannot be loaded, one that is there may still throw while
\* loading
verifyModuleImportLoad ==
  /\ pc = "mod_import"
  /\ \E o \in Outcomes(~ExistsIn(packageDir, mainFile(packageJson))) :
       /\ TryStep("runtime", "import", o, "mod_cleanup")
       /\ o = "fail" =>
            verifyModuleImportCatch("Cannot find module", modulePath(packageJson))
       /\ o = "fault" =>
            verifyModuleImportCatch("load-time exception", <<>>)
  /\ UNCHANGED <<cliVars, serverName, checkerVars, log, localVars, diskVars, env, runs, reports>>

\* the two removals at the end of a try block (verifyModuleImport,
\* verifyCliExecution): rmSync(testDir) then rmSync(tarballPath); with o = "dir"
\* the first one throws, with o = "tar" the second one, and the caller's catch
\* block runs
TryCleanup(o) ==
  /\ o # "ok" => faults < MaxFaults
  /\ faults' = IF o = "ok" THEN faults ELSE faults + 1
  /\ dirs' = IF o # "dir" THEN dirs \ {testDir} ELSE dirs
  /\ tarball' = IF o = "ok" THEN FALSE ELSE tarball
  /\ ops' = ops \o <<Op("runtime", "rm testDir", o # "dir")>>
                \o (IF o = "dir" THEN <<>>
                    ELSE <<Op("runtime", "rm tarball", o = "ok")>>)
  /\ o = "ok" => (pc' = "summary" /\ UNCHANGED errors)

\* verifyModuleImport(): the removals, inside the try block
verifyModuleImportCleanup ==
  /\ pc = "mod_cleanup"
  /\ \E o \in {"ok", "dir", "tar"} :
       /\ TryCleanup(o)
       /\ o # "ok" => verifyModuleImportCatch("rmSync failed", <<>>)
  /\ log' = Append(log, Line("Module imports successfully"))
  /\ UNCHANGED <<cliVars, serverName, checkerVars, localVars, tree, env, installed, nextDir, runs,
                 reports>>

\* --- cli ---
\* the catch block of verifyCliExecution: no removal follows it
verifyCliExecutionCatch(cause, detail) ==
  /\ errors' = Append(errors, Err("CLI execution failed", cause, detail))
  /\ pc' = "summary"

\* verifyCliExecution(), entry: the skip test
verifyCliExecution ==
  /\ pc = "cli"
  /\ IF config.skip.skipCheckBin
     THEN /\ log' = Append(log, Line("Skipped"))
          /\ pc' = "summary"
     ELSE /\ log' = log
          /\ pc' = "cli_mkdtemp"
  /\ testDir' = 0
  /\ tarballPath' = FALSE
  /\ UNCHANGED <<cliVars, serverName, checkerVars, errors, cluster, client, diskVars, env, faults,
                 runs, reports, ops>>

\* verifyCliExecution(): mkdtempSync
verifyCliExecutionMkdtemp ==
  /\ pc = "cli_mkdtemp"
  /\ \E o \in Outcomes(FALSE) :
       /\ Charge(o)
       /\ ops' = Append(ops, Op("runtime", "mkdtemp", o = "ok"))
       /\ IF o = "ok"
          THEN /\ dirs' = dirs \cup {nextDir}
               /\ testDir' = nextDir
               /\ nextDir' = nextDir + 1
               /\ pc' = "cli_pack"
               /\ UNCHANGED errors
          ELSE /\ verifyCliExecutionCatch("mkdtemp failed", <<>>)
               /\ UNCHANGED <<dirs, testDir, nextDir>>
  /\ UNCHANGED <<cliVars, serverName, checkerVars, log, tarballPath, cluster, client, tree, env,
                 tarball, installed, runs, reports>>

\* verifyCliExecution(): execSync('npm pack --silent')
verifyCliExecutionPack ==
  /\ pc = "cli_pack"
  /\ \E o \in Outcomes(FALSE) :
       /\ Charge(o)
       /\ ops' = Append(ops, Op("runtime", "npm pack", o = "ok"))
       /\ IF o = "ok"
          THEN /\ tarball' = TRUE
               /\ tarballPath' = TRUE
               /\ pc' = "cli_init"
               /\ UNCHANGED errors
          ELSE /\ verifyCliExecutionCatch("Command failed: npm pack", <<>>)
               /\ UNCHANGED <<tarball, tarballPath>>
  /\ UNCHANGED <<cliVars, serverName, checkerVars, log, testDir, cluster, client, tree, env, dirs,
                 installed, nextDir, runs, reports>>

\* verifyCliExecution(): execSync('npm init -y')
verifyCliExecutionInit ==
  /\ pc = "cli_init"
  /\ \E o \in Outcomes(FALSE) :
       /\ TryStep("runtime", "npm init", o, "cli_install")
       /\ o # "ok" =>
            verifyCliExecutionCatch("Command failed: npm init -y", <<>>)
  /\ UNCHANGED <<cliVars, serverName, checkerVars, log, localVars, diskVars, env, runs, reports>>

\* verifyCliExecution(): execSync(`npm install "${tarballPath}" ...`)
verifyCliExecutionInstall ==
  /\ pc = "cli_install"
  /\ \E o \in Outcomes(FALSE) :
       /\ TryStep("runtime", "npm install", o, "cli_run")
       /\ o # "ok" =>
            verifyCliExecutionCatch("Command failed: npm install", <<>>)
  /\ installed' = IF pc' = "cli_run" THEN PackedFiles ELSE installed
  /\ UNCHANGED <<cliVars, serverName, checkerVars, log, localVars, tree, env, dirs, tarball,
                 nextDir, runs, reports>>

\* a name taken from the first key the manifest declares
binNameDeclaredFirst(pj) ==
  IF pj.bin.form = "string" THEN Last(Split(pj.name, "/"))
  ELSE IF Len(pj.bin.entries) = 0 THEN <<>>
  ELSE pj.bin.entries[1].key

\* the name verifyCliExecution invokes: name.split('/').pop() for a string
\* bin, Object.keys(bin)[0] otherwise (<<>>: undefined, for an empty map)
binName(pj) ==
  IF pj.bin.form = "string" THEN Last(Split(pj.name, "/"))
  ELSE IF Len(pj.bin.entries) = 0 THEN <<>>
  ELSE BinKeys(pj.bin)[1]

\* the links `npm install` creates in node_modules/.bin: one per key of a bin
\* map; for a string bin one named after the package, without its scope
NpmBinLinks(pj) ==
  IF pj.bin.form = "string"
  THEN { [key   |-> IF StartsWith(pj.name, <<"@">>) /\ Len(Split(pj.name, "/")) > 1
                    THEN SubSeq(pj.name, Len(Split(pj.name, "/")[1]) + 2,
                                Len(pj.name))
                    ELSE pj.name,
          value |-> pj.bin.path] }
  ELSE { pj.bin.entries[i] : i \in DOMAIN pj.bin.entries }

\* the files node_modules/.bin/<name> links to
binTargets(pj, name) ==
  { l.value : l \in { k \in NpmBinLinks(pj) : k.key = name } }

\* the line `Running CLI: ${binName} --version`
RunningCli(name) == [text |-> "Running CLI", err |-> Err("", "", name)]

\* join(testDir, 'node_modules', '.bin', binName), relative to testDir
binPath(pj) == JoinSegs(<<S_nodeModules, <<".","b","i","n">>, binName(pj)>>)

\* verifyCliExecution(): execSync(`${binPath} --version`); join throws for an
\* undefined name; the command cannot run when node_modules/.bin has no link
\* of that name or the file it links to is not in the installed copy
verifyCliExecutionRun ==
  /\ pc = "cli_run"
  /\ IF binName(packageJson) = <<>>
     THEN /\ verifyCliExecutionCatch("TypeError", <<>>)
          /\ UNCHANGED <<log, faults, ops>>
     ELSE /\ log' = Append(log, RunningCli(binName(packageJson)))
          /\ \E o \in Outcomes(\A t \in binTargets(packageJson,
                                                    binName(packageJson)) :
                                  ~ExistsIn(installed, t)) :
               /\ TryStep("runtime", "run --version", o, "cli_cleanup")
               /\ o # "ok" =>
                    verifyCliExecutionCatch("Command failed",
                                            binPath(packageJson))
  /\ UNCHANGED <<cliVars, serverName, checkerVars, localVars, diskVars, env, runs, reports>>

\* verifyCliExecution(): the removals, inside the try block
verifyCliExecutionCleanup ==
  /\ pc = "cli_cleanup"
  /\ \E o \in {"ok", "dir", "tar"} :
       /\ TryCleanup(o)
       /\ o # "ok" => verifyCliExecutionCatch("rmSync failed", <<>>)
  /\ log' = Append(log, Line("CLI executes successfully"))
  /\ UNCHANGED <<cliVars, serverName, checkerVars, localVars, tree, env, installed, nextDir, runs,
                 reports>>

\* --- mcp-server ---
\* the catch block of verifyMcpServer: the finally block follows it
verifyMcpServerCatch(cause, detail) ==
  /\ errors' = Append(errors, Err("MCP server verification failed", cause, detail))
  /\ pc' = "mcp_close"

\* verifyMcpServer(), entry: the skip test
verifyMcpServer ==
  /\ pc = "mcp"
  /\ IF config.skip.skipCheckMcpServer
     THEN /\ log' = Append(log, Line("Skipped"))
          /\ pc' = "summary"
     ELSE /\ log' = log
          /\ pc' = "mcp_mkdtemp"
  /\ testDir' = 0
  /\ tarballPath' = FALSE
  /\ cluster' = FALSE
  /\ client' = FALSE
  /\ UNCHANGED <<cliVars, serverName, checkerVars, errors, diskVars, env, faults, runs, reports,
                 ops>>

\* verifyMcpServer(): mkdtempSync
verifyMcpServerMkdtemp ==
  /\ pc = "mcp_mkdtemp"
  /\ \E o \in Outcomes(FALSE) :
       /\ Charge(o)
       /\ ops' = Append(ops, Op("runtime", "mkdtemp", o = "ok"))
       /\ IF o = "ok"
          THEN /\ dirs' = dirs \cup {nextDir}
               /\ testDir' = nextDir
               /\ nextDir' = nextDir + 1
               /\ pc' = "mcp_pack"
               /\ UNCHANGED errors
          ELSE /\ verifyMcpServerCatch("mkdtemp failed", <<>>)
               /\ UNCHANGED <<dirs, testDir, nextDir>>
  /\ UNCHANGED <<cliVars, serverName, checkerVars, log, tarballPath, cluster, client, tree, env,
                 tarball, installed, runs, reports>>

\* verifyMcpServer(): execSync('npm pack --silent')
verifyMcpServerPack ==
  /\ pc = "mcp_pack"
  /\ \E o \in Outcomes(FALSE) :
       /\ Charge(o)
       /\ ops' = Append(ops, Op("runtime", "npm pack", o = "ok"))
       /\ IF o = "ok"
          THEN /\ tarball' = TRUE
               /\ tarballPath' = TRUE
               /\ pc' = "mcp_init"
               /\ UNCHANGED errors
          ELSE /\ verifyMcpServerCatch("Command failed: npm pack", <<>>)
               /\ UNCHANGED <<tarball, tarballPath>>
  /\ UNCHANGED <<cliVars, serverName, checkerVars, log, testDir, cluster, client, tree, env, dirs,
                 installed, nextDir, runs, reports>>

\* verifyMcpServer(): execSync('npm init -y')
verifyMcpServerInit ==
  /\ pc = "mcp_init"
  /\ \E o \in Outcomes(FALSE) :
       /\ TryStep("runtime", "npm init", o, "mcp_install")
       /\ o # "ok" =>
            verifyMcpServerCatch("Command failed: npm init -y", <<>>)
  /\ UNCHANGED <<cliVars, serverName, checkerVars, log, localVars, diskVars, env, runs, reports>>

\* verifyMcpServer(): execSync(`npm install "${tarballPath}" ...`)
verifyMcpServerInstall ==
  /\ pc = "mcp_install"
  /\ \E o \in Outcomes(FALSE) :
       /\ TryStep("runtime", "npm install", o, "mcp_spawn")
       /\ o # "ok" =>
            verifyMcpServerCatch("Command failed: npm install", <<>>)
  /\ installed' = IF pc' = "mcp_spawn" THEN PackedFiles ELSE installed
  /\ UNCHANGED <<cliVars, serverName, checkerVars, log, localVars, tree, env, dirs, tarball,
                 nextDir, runs, reports>>

\* the server file verifyMcpServer starts: the bin path, the first bin entry,
\* or 'bin/server.js'
serverBin(pj) ==
  IF pj.bin.form = "string" THEN pj.bin.path
  ELSE IF pj.bin.form = "object" /\ Len(pj.bin.entries) > 0
  THEN BinValues(pj.bin)[1]
  ELSE S_binServer

\* verifyMcpServer(): await spawnCluster(...)
verifyMcpServerSpawn ==
  /\ pc = "mcp_spawn"
  /\ \E o \in Outcomes(FALSE) :
       /\ TryStep("runtime", "spawnCluster", o, "mcp_connect")
       /\ o # "ok" =>
            verifyMcpServerCatch("spawn failed", <<>>)
  /\ cluster' = (pc' = "mcp_connect")
  /\ UNCHANGED <<cliVars, serverName, checkerVars, log, testDir, tarballPath, client, diskVars, env,
                 runs, reports>>

\* verifyMcpServer(): await connectMcpClient(cluster, serverName); no
\* connection is made to a server whose file is not in the installed copy
verifyMcpServerConnect ==
  /\ pc = "mcp_connect"
  /\ \E o \in Outcomes(~ExistsIn(packageDir, serverBin(packageJson))) :
       /\ TryStep("runtime", "connectMcpClient", o, "mcp_tests")
       /\ o # "ok" =>
            verifyMcpServerCatch("connect failed",
                     JoinSegs(Segments(getInstalledPackagePath(packageJson))
                     \o Segments(serverBin(packageJson))))
  /\ client' = (pc' = "mcp_tests")
  /\ UNCHANGED <<cliVars, serverName, checkerVars, log, testDir, tarballPath, cluster, diskVars,
                 env, runs, reports>>

\* verifyMcpServer(): if (config.testFile) await import(join(packageDir,
\* testFile))
verifyMcpServerTests ==
  /\ pc = "mcp_tests"
  /\ IF config.testFile = <<>>
     THEN /\ pc' = "mcp_close"
          /\ log' = log
          /\ UNCHANGED <<errors, faults, ops>>
     ELSE \E o \in Outcomes(~ExistsIn(tree, config.testFile)) :
            /\ TryStep("runtime", "import testFile", o,
                       IF env.exported THEN "mcp_call" ELSE "mcp_close")
            /\ o # "ok" =>
                 verifyMcpServerCatch("Cannot find module", config.testFile)
            /\ log' = IF o = "ok" /\ ~env.exported
                      THEN Append(log, Line("No testMcpServer function found"))
                      ELSE log
  /\ UNCHANGED <<cliVars, serverName, checkerVars, localVars, diskVars, env, runs, reports>>

\* a call whose failure is not recorded
verifyMcpServerCallSwallows ==
  /\ pc = "mcp_call"
  /\ \E o \in Outcomes(FALSE) :
       /\ Charge(o)
       /\ ops' = Append(ops, Op("runtime", "testMcpServer", o = "ok"))
  /\ pc' = "mcp_close"
  /\ UNCHANGED <<cliVars, serverName, checkerVars, errors, log, localVars, diskVars,
                 env, runs, reports>>

\* verifyMcpServer(): await tests.testMcpServer(client)
verifyMcpServerCall ==
  /\ pc = "mcp_call"
  /\ \E o \in Outcomes(FALSE) :
       /\ TryStep("runtime", "testMcpServer", o, "mcp_close")
       /\ o # "ok" =>
            verifyMcpServerCatch("validation failed", <<>>)
  /\ UNCHANGED <<cliVars, serverName, checkerVars, log, localVars, diskVars, env, runs, reports>>

\* a teardown call of the finally block whose failure is swallowed
Swallowed(present, name) ==
  IF present
  THEN \E o \in Outcomes(FALSE) :
         /\ Charge(o)
         /\ ops' = Append(ops, Op("runtime", name, o = "ok"))
  ELSE UNCHANGED <<faults, ops>>

\* a finally block that starts the shutdown without waiting for the close
verifyMcpServerCloseUnawaited ==
  /\ pc = "mcp_close"
  /\ faults' = faults
  /\ ops' = ops
       \o (IF client THEN <<Op("runtime", "client.close", TRUE)>> ELSE <<>>)
       \o (IF cluster THEN <<Op("runtime", "cluster.shutdown", TRUE)>> ELSE <<>>)
  /\ pc' = "mcp_cleanup"
  /\ UNCHANGED <<cliVars, serverName, checkerVars, errors, log, localVars, diskVars, env, runs,
                 reports>>

\* verifyMcpServer(), finally: if (client) await client.close()
verifyMcpServerClose ==
  /\ pc = "mcp_close"
  /\ Swallowed(client, "client.close")
  /\ pc' = "mcp_shutdown"
  /\ UNCHANGED <<cliVars, serverName, checkerVars, errors, log, localVars, diskVars, env, runs,
                 reports>>

\* a finally block in which a failed shutdown is not swallowed
verifyMcpServerShutdownEscapes ==
  /\ pc = "mcp_shutdown"
  /\ IF cluster
     THEN \E o \in Outcomes(FALSE) :
            /\ Charge(o)
            /\ ops' = Append(ops, Op("runtime", "cluster.shutdown", o = "ok"))
            /\ pc' = IF o = "ok" THEN "mcp_cleanup" ELSE "summary"
     ELSE /\ pc' = "mcp_cleanup"
          /\ UNCHANGED <<faults, ops>>
  /\ UNCHANGED <<cliVars, serverName, checkerVars, errors, log, localVars, diskVars, env, runs,
                 reports>>

\* verifyMcpServer(), finally: if (cluster) await cluster.shutdown('SIGINT')
verifyMcpServerShutdown ==
  /\ pc = "mcp_shutdown"
  /\ Swallowed(cluster, "cluster.shutdown")
  /\ pc' = "mcp_cleanup"
  /\ UNCHANGED <<cliVars, serverName, checkerVars, errors, log, localVars, diskVars, env, runs,
                 reports>>

\* verifyMcpServer(), finally: the two removals
verifyMcpServerFinally ==
  /\ pc = "mcp_cleanup"
  /\ \E okDir \in BOOLEAN, okTar \in BOOLEAN : Cleanup("runtime", okDir, okTar)
  /\ pc' = "summary"
  /\ UNCHANGED <<cliVars, serverName, checkerVars, errors, localVars, tree, env, installed, nextDir,
                 runs, reports>>

(* --------------------------- check(): result -------------------------- *)
\* a summary that lists only the first error
SummaryFirstOnly(errs) ==
  IF Len(errs) = 0
  THEN <<Line("ALL VERIFICATION PASSED"), Line("Package is ready to publish!")>>
  ELSE <<Line("VERIFICATION FAILED"), ErrLine(errs[1])>>

\* the summary check() writes before it returns
Summary(errs) ==
  IF Len(errs) = 0
  THEN <<Line("ALL VERIFICATION PASSED"), Line("Package is ready to publish!")>>
  ELSE <<Line("VERIFICATION FAILED")>> \o [i \in 1..Len(errs) |-> ErrLine(errs[i])]

\* a report whose success flag ignores the errors
ReportAlwaysPasses(errs, info) ==
  [success |-> TRUE, errors |-> errs, packageInfo |-> info]

\* the object check() returns
Report(errs, info) ==
  [success |-> Len(errs) = 0, errors |-> errs, packageInfo |-> info]

\* a return that overwrites this.packageInfo with the reported kind
checkReturnRetypes ==
  /\ pc = "summary"
  /\ log' = log \o Summary(errors)
  /\ reports' = Append(reports, Report(errors, packageInfo))
  /\ packageInfo' = [packageInfo EXCEPT !.type = "module"]
  /\ pc' = "idle"
  /\ testDir' = 0
  /\ tarballPath' = FALSE
  /\ cluster' = FALSE
  /\ client' = FALSE
  /\ UNCHANGED <<cliVars, serverName, config, packageJson, errors, diskVars, env, faults,
                 runs, ops>>

\* check(), after the fourth stage: the summary and the returned report
checkReturn ==
  /\ pc = "summary"
  /\ log' = log \o Summary(errors)
  /\ reports' = Append(reports, Report(errors, packageInfo))
  /\ pc' = "idle"
  /\ testDir' = 0
  /\ tarballPath' = FALSE
  /\ cluster' = FALSE
  /\ client' = FALSE
  /\ UNCHANGED <<cliVars, serverName, checkerVars, errors, diskVars, env, faults, runs, ops>>

(* --------------------------- specification ---------------------------- *)
Next ==
  \/ check
  \/ verifyBuild
  \/ verifyRequiredFiles
  \/ verifyPackage
  \/ verifyPackagePack
  \/ verifyPackageMkdtemp
  \/ verifyPackageInit
  \/ verifyPackageInstall
  \/ verifyPackageStructure
  \/ verifyPackageFinally
  \/ verifyRuntime
  \/ verifyModuleImport
  \/ verifyModuleImportMkdtemp
  \/ verifyModuleImportPack
  \/ verifyModuleImportInit
  \/ verifyModuleImportInstall
  \/ verifyModuleImportLoad
  \/ verifyModuleImportCleanup
  \/ verifyCliExecution
  \/ verifyCliExecutionMkdtemp
  \/ verifyCliExecutionPack
  \/ verifyCliExecutionInit
  \/ verifyCliExecutionInstall
  \/ verifyCliExecutionRun
  \/ verifyCliExecutionCleanup
  \/ verifyMcpServer
  \/ verifyMcpServerMkdtemp
  \/ verifyMcpServerPack
  \/ verifyMcpServerInit
  \/ verifyMcpServerInstall
  \/ verifyMcpServerSpawn
  \/ verifyMcpServerConnect
  \/ verifyMcpServerTests
  \/ verifyMcpServerCall
  \/ verifyMcpServerClose
  \/ verifyMcpServerShutdown
  \/ verifyMcpServerFinally
  \/ checkReturn

Spec == Init /\ [][Next]_vars

TypeOK ==
  /\ pc \in {"idle", "build", "files", "package", "runtime", "summary",
             "pkg_pack", "pkg_mkdtemp", "pkg_init", "pkg_install", "pkg_verify",
             "pkg_finally", "mod", "mod_mkdtemp", "mod_pack", "mod_init",
             "mod_install", "mod_import", "mod_cleanup", "cli", "cli_mkdtemp",
             "cli_pack", "cli_init", "cli_install", "cli_run", "cli_cleanup",
             "mcp", "mcp_mkdtemp", "mcp_pack", "mcp_init", "mcp_install",
             "mcp_spawn", "mcp_connect", "mcp_tests", "mcp_call", "mcp_close",
             "mcp_shutdown", "mcp_cleanup"}
  /\ faults \in 0..MaxFaults
  /\ runs \in 0..MaxRuns
  /\ Len(reports) <= runs
  /\ dirs \subseteq 1..(nextDir - 1)

(* ------------------- construction over any manifest ------------------- *)
S_esm      == <<"d","i","s","t","/","i","n","d","e","x",".","m","j","s">>
S_dts      == <<"d","i","s","t","/","i","n","d","e","x",".","d",".","t","s">>
S_a        == <<"a">>
S_ioSlash  == <<"i","o","/">>
S_deepName == <<"a","/","b","/","s","r","v">>

\* the entries of a bin map, as the manifest declares them
BinEntry(k, v) == [key |-> k, value |-> v]

\* manifests of every shape the constructor can read: with and without a
\* service identity (plain, 'X/Y', with a trailing '/', with two '/'), with
\* bin absent, a single path, an empty map, a map of one or two names, and a
\* map that declares a name before the keys '10' and '2'
Manifests ==
  [name    : {S_modName, S_cliName},
   version : {S_version},
   main    : {<<>>, S_main},
   module  : {<<>>, S_esm},
   types   : {<<>>, S_dts},
   bin     : {NoBin, StringBin(S_binCli), ObjectBin(<<>>),
              ObjectBin(<<BinEntry(<<"c","l","i">>, S_binCli)>>),
              ObjectBin(<<BinEntry(S_srvName, S_binServer),
                          BinEntry(<<"c","l","i">>, S_binCli)>>),
              ObjectBin(<<BinEntry(<<"c","l","i">>, S_binCli),
                          BinEntry(<<"1","0">>, S_a),
                          BinEntry(<<"2">>, S_binServer)>>)},
   build   : {FALSE},
   mcpName : {<<>>, S_srvName, S_mcpName, S_ioSlash, S_deepName}]

\* caller-supplied extra required paths: none, a repeated one, two
ExtraLists == {<<>>, <<S_a, S_a>>, <<S_license, S_readme>>}

\* this.packageJson and this.packageInfo before the constructor assigns them
NoManifest ==
  [name |-> <<>>, version |-> <<>>, main |-> <<>>, module |-> <<>>,
   types |-> <<>>, bin |-> NoBin, build |-> FALSE, mcpName |-> <<>>]

NoInfo ==
  [type |-> "none", name |-> <<>>, version |-> <<>>, serverName |-> <<>>,
   mcpName |-> <<>>, main |-> <<>>]

NoSkip ==
  [skipBuild |-> FALSE, skipCheckRequiredFiles |-> FALSE, skipPackage |-> FALSE,
   skipCheckImport |-> FALSE, skipCheckBin |-> FALSE,
   skipCheckMcpServer |-> FALSE]

\* a package.json one directory below the artifact root
S_nestedManifest ==
  <<"s","u","b","/","p","a","c","k","a","g","e",".","j","s","o","n">>

\* the artifact roots a checker is constructed over: one with package.json,
\* an empty one, one whose only package.json is in a subdirectory
ArtifactRoots == {{S_packageJson}, {}, {S_nestedManifest}}

\* new CheckPrepublish(config) is about to run: the artifact root holds
\* package.json or not, and the text of package.json parses or not
DetectInit ==
  \E m \in Manifests, extra \in ExtraLists, root \in ArtifactRoots,
     parses \in BOOLEAN :
    /\ config = [skip |-> NoSkip, requiredFiles |-> extra, testFile |-> <<>>]
    /\ packageJson = NoManifest
    /\ packageInfo = NoInfo
    /\ errors = <<>>
    /\ log = <<>>
    /\ pc = "new"
    /\ testDir = 0
    /\ tarballPath = FALSE
    /\ cluster = FALSE
    /\ client = FALSE
    /\ tree = root
    /\ env = [packs |-> AllPaths, outputs |-> {}, exported |-> FALSE,
              manifest |-> m, parses |-> parses]
    /\ dirs = {}
    /\ tarball = FALSE
    /\ installed = {}
    /\ nextDir = 1
    /\ faults = 0
    /\ runs = 0
    /\ reports = <<>>
    /\ ops = <<>>
    /\ cliConfig = EmptyObject
    /\ fileConfig = EmptyObject
    /\ mergedConfig = EmptyObject
    /\ serverName = Undefined

\* a constructor that goes on without a manifest
constructorLenient ==
  /\ pc = "new"
  /\ IF ExistsIn(tree, S_packageJson) /\ env.parses
     THEN /\ packageJson' = env.manifest
          /\ packageInfo' = detectPackageType(env.manifest)
          /\ pc' = "idle"
     ELSE /\ packageJson' = NoManifest
          /\ packageInfo' = detectPackageType(NoManifest)
          /\ pc' = "idle"
  /\ UNCHANGED <<cliVars, serverName, config, errors, log, localVars, diskVars, env,
                 faults, runs, reports, ops>>

\* the constructor: it throws when package.json is missing or does not parse,
\* and otherwise keeps the parsed manifest and the detected package type
constructor ==
  /\ pc = "new"
  /\ IF ExistsIn(tree, S_packageJson) /\ env.parses
     THEN /\ packageJson' = env.manifest
          /\ packageInfo' = detectPackageType(env.manifest)
          /\ pc' = "idle"
     ELSE /\ pc' = "threw"
          /\ UNCHANGED <<packageJson, packageInfo>>
  /\ UNCHANGED <<cliVars, serverName, config, errors, log, localVars, diskVars, env,
                 faults, runs, reports, ops>>

\* a direct call of getServerName() on the constructed checker
callGetServerName ==
  /\ pc = "idle"
  /\ serverName = Undefined
  /\ serverName' = Some(getServerName(packageJson))
  /\ UNCHANGED <<cliVars, checkerVars, errors, log, pc, localVars, diskVars, env,
                 faults, runs, reports, ops>>

\* construction followed by a check() call up to the end of Stage 2
DetectNext ==
  \/ constructor
  \/ callGetServerName
  \/ check
  \/ verifyBuild
  \/ verifyRequiredFiles

DetectSpec == DetectInit /\ [][DetectNext]_vars

(* ------------------- loadConfig and mergeConfig ----------------------- *)
S_ncprc == <<".","n","c","p","r","c",".","j","s","o","n">>
S_dot   == <<".">>

\* three configuration objects in which every merged skip flag is once true,
\* once false and once undefined
ConfigA ==
  [EmptyObject EXCEPT !.skipBuild = Some(TRUE),
                      !.skipCheckRequiredFiles = Some(FALSE),
                      !.skipCheckImport = Some(TRUE),
                      !.skipCheckBin = Some(FALSE),
                      !.requiredFiles = Some(<<S_readme>>)]

ConfigB ==
  [EmptyObject EXCEPT !.skipBuild = Some(FALSE),
                      !.skipPackage = Some(TRUE),
                      !.skipCheckImport = Some(FALSE),
                      !.requiredFiles = Some(<<S_readme, S_license>>),
                      !.testFile = Some(S_checkTests),
                      !.skipCheckMcpServer = Some(TRUE)]

ConfigC ==
  [EmptyObject EXCEPT !.skipCheckRequiredFiles = Some(TRUE),
                      !.skipPackage = Some(FALSE),
                      !.skipCheckBin = Some(TRUE)]

\* the explicit configurations: every skip flag true, false or undefined,
\* with or without extra paths, with or without the service-only options
CliConfigs ==
  { [k \in InputKeys |->
       CASE k \in MergedFlags        -> flags[k]
         [] k = "requiredFiles"      -> extra
         [] k = "testFile"           ->
              IF service THEN Some(S_checkTests) ELSE Undefined
         [] k = "skipCheckMcpServer" ->
              IF service THEN Some(TRUE) ELSE Undefined
         [] k = "packageDir"         -> Some(S_dot)
         [] OTHER                    -> Undefined]
    : flags \in [MergedFlags -> {Undefined, Some(TRUE), Some(FALSE)}],
      extra \in {Undefined, Some(<<S_a>>)},
      service \in BOOLEAN }

\* .ncprc.json on disk: absent, present but unreadable as JSON, or holding
\* an object
NcprcFiles ==
  { [exists |-> FALSE, parses |-> FALSE, content |-> EmptyObject],
    [exists |-> TRUE,  parses |-> FALSE, content |-> EmptyObject],
    [exists |-> TRUE,  parses |-> TRUE,  content |-> ConfigA],
    [exists |-> TRUE,  parses |-> TRUE,  content |-> ConfigB] }

\* package.json on disk: absent, unparsable, or parsed with an 'ncp' field
\* that is absent, null, a string, or an object
ManifestFiles ==
  { [exists |-> FALSE, parses |-> FALSE, ncpKind |-> "absent", ncp |-> EmptyObject],
    [exists |-> TRUE,  parses |-> FALSE, ncpKind |-> "absent", ncp |-> EmptyObject],
    [exists |-> TRUE,  parses |-> TRUE,  ncpKind |-> "absent", ncp |-> EmptyObject],
    [exists |-> TRUE,  parses |-> TRUE,  ncpKind |-> "null",   ncp |-> EmptyObject],
    [exists |-> TRUE,  parses |-> TRUE,  ncpKind |-> "string", ncp |-> EmptyObject],
    [exists |-> TRUE,  parses |-> TRUE,  ncpKind |-> "object", ncp |-> ConfigB],
    [exists |-> TRUE,  parses |-> TRUE,  ncpKind |-> "object", ncp |-> ConfigC] }

\* a loader that prefers the manifest field to .ncprc.json
loadConfigManifestFirst(files, disk) ==
  IF /\ ExistsIn(files, S_packageJson)
     /\ disk.manifest.parses
     /\ disk.manifest.ncpKind = "object"
  THEN disk.manifest.ncp
  ELSE IF ExistsIn(files, S_ncprc) /\ disk.ncprc.parses
  THEN disk.ncprc.content
  ELSE EmptyObject

\* loadConfig(packageDir) over the files of packageDir: the parsed
\* .ncprc.json if it exists and parses, else packageJson.ncp if package.json
\* exists and parses and ncp is truthy and typeof ncp is 'object', else {}
loadConfig(files, disk) ==
  IF ExistsIn(files, S_ncprc) /\ disk.ncprc.parses
  THEN disk.ncprc.content
  ELSE IF /\ ExistsIn(files, S_packageJson)
          /\ disk.manifest.parses
          /\ disk.manifest.ncpKind \in {"string", "object"}
          /\ disk.manifest.ncpKind \in {"null", "object"}
  THEN disk.manifest.ncp
  ELSE EmptyObject

\* value || []
OrEmptyList(v) == IF v = Undefined THEN <<>> ELSE v[1]

\* a merge that takes the explicit flag only when it is true (|| for ??)
mergeConfigOr(fc, cc) ==
  [k \in MergedFlags \cup {"packageDir", "logger", "requiredFiles"} |->
     CASE k \in {"packageDir", "logger"} -> cc[k]
       [] k = "requiredFiles" ->
            Some(OrEmptyList(fc[k]) \o OrEmptyList(cc[k]))
       [] OTHER -> IF cc[k] = Some(TRUE) THEN cc[k] ELSE fc[k]]

\* a merge that also passes testFile and skipCheckMcpServer through
mergeConfigKeepsService(fc, cc) ==
  [k \in InputKeys |->
     CASE k \in {"packageDir", "logger"} -> cc[k]
       [] k = "requiredFiles" ->
            Some(OrEmptyList(fc[k]) \o OrEmptyList(cc[k]))
       [] OTHER -> IF cc[k] # Undefined THEN cc[k] ELSE fc[k]]

\* mergeConfig(fileConfig, cliConfig)
mergeConfig(fc, cc) ==
  [k \in MergedFlags \cup {"packageDir", "logger", "requiredFiles"} |->
     CASE k \in {"packageDir", "logger"} -> cc[k]
       [] k = "requiredFiles" ->
            Some(OrEmptyList(fc[k]) \o OrEmptyList(cc[k]))
       [] OTHER -> IF cc[k] # Undefined THEN cc[k] ELSE fc[k]]

\* a caller is about to load the configuration of a directory (which may not
\* exist) and to merge it with its explicit configuration
ConfigInit ==
  \E cc \in CliConfigs, rc \in NcprcFiles, mf \in ManifestFiles,
     dirExists \in BOOLEAN :
    /\ dirExists \/ (~rc.exists /\ ~mf.exists)
    /\ cliConfig = cc
    /\ fileConfig = EmptyObject
    /\ mergedConfig = EmptyObject
    /\ serverName = Undefined
    /\ tree = (IF rc.exists THEN {S_ncprc} ELSE {})
                \cup (IF mf.exists THEN {S_packageJson} ELSE {})
    /\ env = [dirExists |-> dirExists, ncprc |-> rc, manifest |-> mf]
    /\ pc = "config_load"
    /\ config = [skip |-> NoSkip, requiredFiles |-> <<>>, testFile |-> <<>>]
    /\ packageJson = NoManifest
    /\ packageInfo = NoInfo
    /\ errors = <<>>
    /\ log = <<>>
    /\ testDir = 0
    /\ tarballPath = FALSE
    /\ cluster = FALSE
    /\ client = FALSE
    /\ dirs = {}
    /\ tarball = FALSE
    /\ installed = {}
    /\ nextDir = 1
    /\ faults = 0
    /\ runs = 0
    /\ reports = <<>>
    /\ ops = <<>>

\* const fileConfig = loadConfig(packageDir)
callLoadConfig ==
  /\ pc = "config_load"
  /\ fileConfig' = loadConfig(tree, env)
  /\ pc' = "config_merge"
  /\ UNCHANGED <<cliConfig, mergedConfig, serverName, checkerVars, errors, log,
                 localVars, diskVars, env, faults, runs, reports, ops>>

\* const config = mergeConfig(fileConfig, cliConfig)
callMergeConfig ==
  /\ pc = "config_merge"
  /\ mergedConfig' = mergeConfig(fileConfig, cliConfig)
  /\ pc' = "config_done"
  /\ UNCHANGED <<cliConfig, fileConfig, serverName, checkerVars, errors, log,
                 localVars, diskVars, env, faults, runs, reports, ops>>

ConfigNext ==
  \/ callLoadConfig
  \/ callMergeConfig

ConfigSpec == ConfigInit /\ [][ConfigNext]_vars

(* ---------------- the executable branch over any bin field ------------ *)
S_cliKey == <<"c","l","i">>
S_ten    == <<"1","0">>
S_two    == <<"2">>

\* manifests of CLI tools: a scoped and an unscoped name; bin a single path,
\* an empty map, a map of one or two names, and a map that declares a name
\* before the keys '10' and '2'
CliManifests ==
  [name    : {S_modName, S_cliName},
   version : {S_version},
   main    : {<<>>},
   module  : {<<>>},
   types   : {<<>>},
   bin     : {StringBin(S_binCli), ObjectBin(<<>>),
              ObjectBin(<<BinEntry(S_cliKey, S_binCli)>>),
              ObjectBin(<<BinEntry(S_cliKey, S_binCli),
                          BinEntry(S_srvName, S_binServer)>>),
              ObjectBin(<<BinEntry(S_cliKey, S_binCli),
                          BinEntry(S_ten, S_binCli),
                          BinEntry(S_two, S_binServer)>>)},
   build   : {FALSE},
   mcpName : {<<>>}]

\* artifact roots: no executable file, bin/cli.js, bin/cli.js and bin/server.js
CliTrees ==
  {{S_packageJson}, {S_packageJson, S_binCli},
   {S_packageJson, S_binCli, S_binServer}}

\* the first three stages skipped, the executable check skipped or not
CliSkips ==
  { [skipBuild |-> TRUE, skipCheckRequiredFiles |-> TRUE, skipPackage |-> TRUE,
     skipCheckImport |-> FALSE, skipCheckBin |-> b,
     skipCheckMcpServer |-> FALSE] : b \in BOOLEAN }

\* new CheckPrepublish(config) over a CLI tool
CliInit ==
  \E m \in CliManifests, t \in CliTrees, flags \in CliSkips :
    /\ config = [skip |-> flags, requiredFiles |-> <<>>, testFile |-> <<>>]
    /\ packageJson = m
    /\ packageInfo = detectPackageType(m)
    /\ errors = <<>>
    /\ log = <<>>
    /\ pc = "idle"
    /\ testDir = 0
    /\ tarballPath = FALSE
    /\ cluster = FALSE
    /\ client = FALSE
    /\ tree = t
    /\ env = [packs |-> AllPaths, outputs |-> {}, exported |-> FALSE]
    /\ dirs = {}
    /\ tarball = FALSE
    /\ installed = {}
    /\ nextDir = 1
    /\ faults = 0
    /\ runs = 0
    /\ reports = <<>>
    /\ ops = <<>>
    /\ cliConfig = EmptyObject
    /\ fileConfig = EmptyObject
    /\ mergedConfig = EmptyObject
    /\ serverName = Undefined

CliNext ==
  \/ check
  \/ verifyBuild
  \/ verifyRequiredFiles
  \/ verifyPackage
  \/ verifyRuntime
  \/ verifyCliExecution
  \/ verifyCliExecutionMkdtemp
  \/ verifyCliExecutionPack
  \/ verifyCliExecutionInit
  \/ verifyCliExecutionInstall
  \/ verifyCliExecutionRun
  \/ verifyCliExecutionCleanup
  \/ checkReturn

CliSpec == CliInit /\ [][CliNext]_vars

(* ------------- load, merge, construct and check a service ------------- *)
\* config.<key>: undefined when the object has no such property
Get(c, k) == IF k \in DOMAIN c THEN c[k] ELSE Undefined

\* the configuration the constructor keeps: flag || false,
\* requiredFiles || [], testFile || ''
VerifyConfigOf(c) ==
  [skip |-> [k \in DOMAIN NoSkip |-> Get(c, k) = Some(TRUE)],
   requiredFiles |-> OrEmptyList(Get(c, "requiredFiles")),
   testFile |-> IF Get(c, "testFile") = Undefined THEN <<>>
                ELSE Get(c, "testFile")[1]]

\* the explicit configurations of a caller: no flag or skipBuild, with or
\* without the service-only options
EntryCliConfigs ==
  { c \in CliConfigs :
      /\ c.requiredFiles = Undefined
      /\ c.skipBuild \in {Undefined, Some(TRUE)}
      /\ \A k \in MergedFlags \ {"skipBuild"} : c[k] = Undefined }

\* .ncprc.json: absent, or one of two objects
EntryNcprcFiles == { rc \in NcprcFiles : rc.exists => rc.parses }

\* package.json of the service: no 'ncp' field, or an 'ncp' object
EntryManifestFiles ==
  { mf \in ManifestFiles :
      /\ mf.exists
      /\ mf.parses
      /\ mf.ncpKind \in {"absent", "object"}
      /\ mf.ncp \in {EmptyObject, ConfigB} }

\* a caller in the directory of an MCP server (with its validation module,
\* which exports testMcpServer) is about to load and merge the configuration,
\* construct a checker from the result and call check()
EntryInit ==
  \E cc \in EntryCliConfigs, rc \in EntryNcprcFiles, mf \in EntryManifestFiles :
    /\ cliConfig = cc
    /\ fileConfig = EmptyObject
    /\ mergedConfig = EmptyObject
    /\ serverName = Undefined
    /\ tree = W_mcp.tree \cup (IF rc.exists THEN {S_ncprc} ELSE {})
    /\ env = [packs |-> W_mcp.packs, outputs |-> W_mcp.outputs,
              exported |-> TRUE, dirExists |-> TRUE, ncprc |-> rc,
              manifest |-> mf, packageJson |-> W_mcp.manifest]
    /\ pc = "config_load"
    /\ config = [skip |-> NoSkip, requiredFiles |-> <<>>, testFile |-> <<>>]
    /\ packageJson = NoManifest
    /\ packageInfo = NoInfo
    /\ errors = <<>>
    /\ log = <<>>
    /\ testDir = 0
    /\ tarballPath = FALSE
    /\ cluster = FALSE
    /\ client = FALSE
    /\ dirs = {}
    /\ tarball = FALSE
    /\ installed = {}
    /\ nextDir = 1
    /\ faults = 0
    /\ runs = 0
    /\ reports = <<>>
    /\ ops = <<>>

\* new CheckPrepublish(config) with the merged configuration: package.json
\* exists and parses
newCheckPrepublish ==
  /\ pc = "config_done"
  /\ config' = VerifyConfigOf(mergedConfig)
  /\ packageJson' = env.packageJson
  /\ packageInfo' = detectPackageType(env.packageJson)
  /\ pc' = "idle"
  /\ UNCHANGED <<cliVars, serverName, errors, log, localVars, diskVars, env,
                 faults, runs, reports, ops>>

\* testMcpServer is called only after the import of config.testFile
EntryNext ==
  \/ callLoadConfig
  \/ callMergeConfig
  \/ newCheckPrepublish
  \/ check
  \/ verifyBuild
  \/ verifyRequiredFiles
  \/ verifyPackage
  \/ verifyPackagePack
  \/ verifyPackageMkdtemp
  \/ verifyPackageInit
  \/ verifyPackageInstall
  \/ verifyPackageStructure
  \/ verifyPackageFinally
  \/ verifyRuntime
  \/ verifyMcpServer
  \/ verifyMcpServerMkdtemp
  \/ verifyMcpServerPack
  \/ verifyMcpServerInit
  \/ verifyMcpServerInstall
  \/ verifyMcpServerSpawn
  \/ verifyMcpServerConnect
  \/ verifyMcpServerTests
  \/ verifyMcpServerClose
  \/ verifyMcpServerShutdown
  \/ verifyMcpServerFinally
  \/ checkReturn

EntrySpec == EntryInit /\ [][EntryNext]_vars

(* ------------------------------ claims -------------------------------- *)
\* a check() call has returned and no other one is in progress
Returned == pc = "idle" /\ runs >= 1 /\ Len(reports) = runs

LastReport == reports[Len(reports)]

\* the stage headers written so far, in order
StepLines ==
  SelectSeq(log, LAMBDA l : l.text \in {"Step 1", "Step 2", "Step 3", "Step 4"})

AllSteps == <<Line("Step 1"), Line("Step 2"), Line("Step 3"), Line("Step 4")>>

\* the entries of a sequence of errors that carry a tag
Tagged(errs, tag) == SelectSeq(errs, LAMBDA e : e.tag = tag)

\* C1: in every check() call the stages are entered in the order build, file
\* check, packaging, runtime, each exactly once: the stage headers written so
\* far are always a prefix of the four headers in order, and all four have
\* been written when the call reaches its summary, whatever errors the
\* stages recorded.
C1_StagesInOrder ==
  /\ Len(StepLines) <= 4
  /\ StepLines = SubSeq(AllSteps, 1, Len(StepLines))
  /\ (pc = "summary" \/ Returned) => StepLines = AllSteps
  /\ pc = "build"   => Len(StepLines) = 0
  /\ pc = "files"   => Len(StepLines) = 1
  /\ pc = "package" => Len(StepLines) = 2
  /\ pc = "runtime" => Len(StepLines) = 3

\* C1 witness: a call reached its summary after Stage 2 and Stage 3 both
\* recorded a failure, and Stage 4 was still entered
C1_Witness ==
  /\ pc = "summary"
  /\ Len(Tagged(errors, "Missing required file")) >= 1
  /\ Len(Tagged(errors, "Package verification failed")) = 1
  /\ StepLines = AllSteps

\* C2: every report check() returned has success = TRUE exactly when its
\* errors sequence is empty.
C2_SuccessIffNoErrors ==
  \A i \in DOMAIN reports : reports[i].success <=> (Len(reports[i].errors) = 0)

\* C2 witness: the checker returned a passing report and then a failing one
C2_Witness ==
  /\ Len(reports) = 2
  /\ reports[1].success /\ reports[1].errors = <<>>
  /\ ~reports[2].success /\ reports[2].errors # <<>>

\* the external operations a stage runs inside its try block
TriedOps ==
  {"npm run build", "npm pack", "mkdtemp", "npm init", "npm install", "import",
   "run --version", "spawnCluster", "connectMcpClient", "import testFile",
   "testMcpServer"}

\* the tag of the entry the catch block of a stage appends
CatchTag(stage) ==
  CASE stage = "build"   -> "Build failed"
    [] stage = "package" -> "Package verification failed"
    [] stage = "runtime" ->
         CASE packageInfo.type = "module" -> "Failed to import module"
           [] packageInfo.type = "cli"    -> "CLI execution failed"
           [] OTHER                       -> "MCP server verification failed"

\* C5: no failure of an external operation makes check() reject: the call is
\* never in a rejected state, every failed operation of a try block has an
\* entry of its own stage in the ErrorLog, and every call that ended returned
\* a report.
C5_NoFailureEscapes ==
  /\ pc # "rejected"
  /\ \A i \in DOMAIN ops :
       (ops[i].op \in TriedOps /\ ~ops[i].ok)
         => Len(Tagged(errors, CatchTag(ops[i].stage))) = 1
  /\ pc = "idle" => Len(reports) = runs

\* C5 witness: the module load threw, and check() returned a report holding
\* the entry of the runtime stage
C5_Witness ==
  /\ Returned
  /\ \E i \in DOMAIN ops : ops[i] = Op("runtime", "import", FALSE)
  /\ Len(Tagged(LastReport.errors, "Failed to import module")) = 1

\* the indices of the required files that are missing under the artifact root
MissingIdx(files) == { i \in DOMAIN files : ~ExistsIn(tree, files[i]) }

\* the k-th smallest element of a set of indices
Kth(idx, k) == CHOOSE i \in idx : Cardinality({ j \in idx : j <= i }) = k

\* C7: when Stage 2 has run, the ErrorLog holds one 'Missing required file'
\* entry per missing entry of the required-file list, in list order, each
\* naming its path: the loop does not stop at the first missing file.
C7_StaticCheckExhaustive ==
  (pc = "package" /\ ~config.skip.skipCheckRequiredFiles) =>
    LET files == getRequiredFiles(packageJson, config)
        found == Tagged(errors, "Missing required file")
    IN  /\ Len(found) = Cardinality(MissingIdx(files))
        /\ \A k \in DOMAIN found :
             found[k] = Err("Missing required file", "",
                            files[Kth(MissingIdx(files), k)])

\* C7 witness: Stage 2 has run over a list with three missing files and left
\* three entries naming three different paths
C7_Witness ==
  /\ pc = "package"
  /\ ~config.skip.skipCheckRequiredFiles
  /\ LET found == Tagged(errors, "Missing required file")
     IN  /\ Len(found) = 3
         /\ Cardinality({found[i].detail : i \in 1..3}) = 3

\* an operation of a stage succeeded / was called at all in this check() call
Did(stage, name)   == \E i \in DOMAIN ops : ops[i] = Op(stage, name, TRUE)
Tried(stage, name) == \E i \in DOMAIN ops : ops[i].stage = stage /\ ops[i].op = name

\* C3: whenever Stage 3 or a Stage 4 branch has exited, on success or after a
\* failure at any step, the removal of the workspace it created and of the
\* archive it produced has been performed.
C3_RemovalOnEveryExit ==
  (pc = "summary" \/ Returned) =>
    \A stage \in {"package", "runtime"} :
      /\ Did(stage, "mkdtemp")  => Tried(stage, "rm testDir")
      /\ Did(stage, "npm pack") => Tried(stage, "rm tarball")

\* the removals that failed in the step from the current state to the next
FailedRemovalInStep ==
  \E i \in (Len(ops) + 1)..Len(ops') :
    /\ ops'[i].op \in {"rm testDir", "rm tarball"}
    /\ ~ops'[i].ok

\* C4: a failure to remove the workspace or the archive, in Stage 3 or in any
\* Stage 4 branch, never appends an entry to the ErrorLog.
C4_RemovalFailureOnlyWarns ==
  [][FailedRemovalInStep => errors' = errors]_vars

\* C6: when Stage 3 has checked an installed copy that holds every required
\* file and a top-level entry whose name starts with '.env', the stage has
\* failed with an excluded-content error.
C6_EnvPrefixFlagged ==
  ( /\ pc = "pkg_finally"
    /\ Did("package", "npm install")
    /\ FirstMissing(getRequiredFiles(packageJson, config), installed) = <<>>
    /\ \E f \in ReadDir(installed) : StartsWith(f, S_env) )
  => \E j \in DOMAIN errors :
       errors[j].cause = "File/directory should NOT be in package"

\* the scenario of C8: the minimal module without dist/index.js, checked with
\* only the build stage skipped
Scenario8 ==
  /\ packageJson = ModuleManifest
  /\ ~ExistsIn(tree, S_main)
  /\ config.skip = [skipBuild |-> TRUE, skipCheckRequiredFiles |-> FALSE,
                    skipPackage |-> FALSE, skipCheckImport |-> FALSE,
                    skipCheckBin |-> FALSE, skipCheckMcpServer |-> FALSE]

\* the entries of a sequence of errors whose text mentions dist/index.js
Mentioning(errs) == SelectSeq(errs, LAMBDA e : Includes(e.detail, S_distIndex))

\* every operation of the run other than the module load succeeded
OnlyLoadFailed == \A i \in DOMAIN ops : ops[i].ok \/ ops[i].op = "import"

\* C8 as stated: in the scenario the report has success = FALSE and exactly
\* one entry mentioning dist/index.js.
C8_ExactlyOneMention ==
  (Returned /\ Scenario8) =>
    /\ ~LastReport.success
    /\ Len(Mentioning(LastReport.errors)) = 1

\* C8 as amended: in the scenario the report has success = FALSE and its
\* first entry is the only 'Missing required file' entry, naming
\* ./dist/index.js; the Stage 3 and Stage 4 entries mention dist/index.js too
\* when they get as far as the installed copy, so one to three entries mention
\* it, three when no other operation fails.
C8_OneMissingFileEntry ==
  (Returned /\ Scenario8) =>
    LET m == Mentioning(LastReport.errors)
    IN  /\ ~LastReport.success
        /\ LastReport.errors[1] = Err("Missing required file", "", S_main)
        /\ Len(Tagged(m, "Missing required file")) = 1
        /\ Len(m) \in 1..3
        /\ OnlyLoadFailed => Len(m) = 3

\* C8 witness: the scenario ran to its report, which mentions dist/index.js
\* in the entries of Stage 2, Stage 3 and Stage 4
C8_Witness ==
  /\ Returned
  /\ Scenario8
  /\ Len(Mentioning(LastReport.errors)) = 3
  /\ Len(Tagged(LastReport.errors, "Missing required file")) = 1

\* no stage that ran met a failure: every operation of a try block succeeded,
\* Stage 2 (if run) found every required file under the artifact root, and
\* Stage 3 (if it got to the installed copy) found every required file and no
\* excluded path in it
NoStageFailed ==
  LET files == getRequiredFiles(packageJson, config)
  IN  /\ \A i \in DOMAIN ops : ops[i].op \in TriedOps => ops[i].ok
      /\ ~config.skip.skipCheckRequiredFiles => MissingIdx(files) = {}
      /\ Did("package", "npm install") =>
           /\ FirstMissing(files, PackedFiles) = <<>>
           /\ ExcludedFound(EXCLUDED_PATHS, PackedFiles) = {}

\* C9: check() returns success = TRUE with an empty errors sequence exactly
\* when no stage that ran met a failure.
C9_SuccessIffNoStageFailed ==
  Returned =>
    ((LastReport.success /\ LastReport.errors = <<>>) <=> NoStageFailed)

\* an artifact on which every stage passes: the required files are under its
\* root and in its archive, the archive holds no excluded path, and the file
\* the runtime stage exercises is in the archive
FullyPassing ==
  LET files == getRequiredFiles(packageJson, config)
  IN  /\ MissingIdx(files) = {}
      /\ FirstMissing(files, PackedFiles) = <<>>
      /\ ExcludedFound(EXCLUDED_PATHS, PackedFiles) = {}
      /\ CASE packageInfo.type = "module" ->
                ExistsIn(PackedFiles, mainFile(packageJson))
           [] packageInfo.type = "cli" ->
                \E t \in binTargets(packageJson, binName(packageJson)) :
                  ExistsIn(PackedFiles, t)
           [] OTHER ->
                /\ ExistsIn(PackedFiles, serverBin(packageJson))
                /\ config.testFile # <<>> => ExistsIn(tree, config.testFile)

\* C10: check() calls in a row on a fully passing artifact, with no external
\* operation failing, all return success = TRUE with no errors, and after
\* each of them no workspace directory and no archive is left on disk.
C10_RepeatedRunsPassAndLeaveNothing ==
  (Returned /\ faults = 0 /\ FullyPassing) =>
    /\ \A i \in DOMAIN reports :
         reports[i].success /\ reports[i].errors = <<>>
    /\ dirs = {}
    /\ ~tarball

\* C10 witness: two calls in a row with no stage skipped have returned on a
\* fully passing artifact; each created and removed two workspaces
C10_Witness ==
  /\ Returned
  /\ Len(reports) = 2
  /\ faults = 0
  /\ FullyPassing
  /\ \A f \in DOMAIN config.skip : ~config.skip[f]
  /\ nextDir = 5
  /\ dirs = {}

\* the build of the current check() call was invoked and failed
BuildFailedNow == \E i \in DOMAIN ops : ops[i] = Op("build", "npm run build", FALSE)

\* C11: the ErrorLog is empty when a check() call enters its first stage, a
\* 'Build failed' entry is in the ErrorLog only if the build of this very call
\* failed, and the report a call returns carries the ErrorLog of that call.
C11_ErrorLogResetPerCall ==
  /\ pc = "build" => errors = <<>>
  /\ Tagged(errors, "Build failed") # <<>> => BuildFailedNow
  /\ Returned => LastReport.errors = errors

\* C11 witness: the first call returned a 'Build failed' entry, the second
\* call on the same checker has returned and its report has no entry
C11_Witness ==
  /\ Returned
  /\ Len(reports) = 2
  /\ Tagged(reports[1].errors, "Build failed") # <<>>
  /\ reports[2].errors = <<>>

\* the constructor has returned a checker
Constructed == pc \notin {"new", "threw"}

\* C12: every manifest a checker was constructed from has exactly one of the
\* three kinds, fixed by the manifest alone: service when mcpName is declared,
\* even if bin is declared too; else executable when bin is declared; else
\* module.
C12_DetectionPrecedence ==
  Constructed =>
    /\ packageInfo.type \in {"mcp-server", "cli", "module"}
    /\ packageInfo.type = "mcp-server" <=> packageJson.mcpName # <<>>
    /\ packageInfo.type = "cli" <=>
         (packageJson.mcpName = <<>> /\ packageJson.bin.form # "none")
    /\ packageInfo.type = "module" <=>
         (packageJson.mcpName = <<>> /\ packageJson.bin.form = "none")
    /\ packageInfo.name = packageJson.name

\* C12 witness: a checker constructed from a manifest that declares both
\* mcpName and bin was detected as a service
C12_Witness ==
  /\ Constructed
  /\ packageJson.mcpName # <<>>
  /\ packageJson.bin.form # "none"
  /\ packageInfo.type = "mcp-server"

\* the substring of s after its last '/', and s itself when it has no '/'
AfterLastSlash(s) ==
  LET at == { i \in DOMAIN s : s[i] = "/" }
  IN  IF at = {} THEN s
      ELSE SubSeq(s, (CHOOSE i \in at : \A j \in at : j <= i) + 1, Len(s))

\* C13 as stated: for every manifest with a service identity the derived
\* service name is the substring after the last '/' of mcpName, and the whole
\* value when it has no '/'.
C13_NameAfterLastSlash ==
  (Constructed /\ packageJson.mcpName # <<>>) =>
    packageInfo.serverName = AfterLastSlash(packageJson.mcpName)

\* C13, amended: the derived service name is the substring after the last '/'
\* of mcpName when that substring is not empty, and the whole value of mcpName
\* when it has no '/' or ends with '/'.
C13_NameAfterLastSlashOrWhole ==
  (Constructed /\ packageJson.mcpName # <<>>) =>
    /\ packageInfo.type = "mcp-server"
    /\ packageInfo.serverName =
         IF AfterLastSlash(packageJson.mcpName) # <<>>
         THEN AfterLastSlash(packageJson.mcpName)
         ELSE packageJson.mcpName

\* C13 witness: from mcpName 'a/b/srv' the constructor derived 'srv'
C13_Witness ==
  /\ Constructed
  /\ packageJson.mcpName = S_deepName
  /\ packageInfo.serverName = S_srvName

\* the declared entry points of a manifest, in the order main, module, types
EntryPoints(pj) ==
  (IF pj.main # <<>> THEN <<pj.main>> ELSE <<>>)
    \o (IF pj.module # <<>> THEN <<pj.module>> ELSE <<>>)
    \o (IF pj.types # <<>> THEN <<pj.types>> ELSE <<>>)

\* the executable paths of a manifest in the order the manifest declares them
DeclaredBinPaths(pj) ==
  IF pj.bin.form = "string" THEN <<pj.bin.path>>
  ELSE [i \in 1..Len(pj.bin.entries) |-> pj.bin.entries[i].value]

\* the part of a resolved list between the entry points and the extras
BinPart(pj, cfg, files) ==
  SubSeq(files, 2 + Len(EntryPoints(pj)), Len(files) - Len(cfg.requiredFiles))

\* how often a value occurs in a sequence
Count(seq, v) == Cardinality({ i \in DOMAIN seq : seq[i] = v })

\* the paths Stage 2 reported missing, in the order of the ErrorLog
MissingPaths ==
  LET found == Tagged(errors, "Missing required file")
  IN  [i \in 1..Len(found) |-> found[i].detail]

OwnRuntimeFlag ==
  CASE packageInfo.type = "module" -> config.skip.skipCheckImport
    [] packageInfo.type = "cli"    -> config.skip.skipCheckBin
    [] OTHER                       -> config.skip.skipCheckMcpServer

\* the external operations a stage has called in this check() call
StageOps(stage) == SelectSeq(ops, LAMBDA o : o.stage = stage)

\* a try block that ran as far as each of its operations allowed: it called
\* mkdtemp, pack, init and install until one of them failed
RanItsSteps(stage, steps) ==
  /\ Tried(stage, steps[1])
  /\ \A k \in 1..(Len(steps) - 1) : Did(stage, steps[k]) => Tried(stage, steps[k + 1])

\* C15: when a check() call has passed its four stages, each stage whose skip
\* flag is set has called no external operation and appended no entry, and
\* each stage whose flag is unset has run, whatever the other flags are: the
\* build was invoked if there is a build script, Stage 2 reported every
\* missing file, Stage 3 packed, and the runtime branch of the package's kind
\* created its workspace, packed and installed on its own.  Only the runtime
\* flag of the package's own kind decides whether Stage 4 runs.
C15_SkipFlagsIndependent ==
  pc = "summary" =>
    /\ IF config.skip.skipBuild
       THEN StageOps("build") = <<>> /\ Tagged(errors, "Build failed") = <<>>
       ELSE packageJson.build => Tried("build", "npm run build")
    /\ IF config.skip.skipCheckRequiredFiles
       THEN Tagged(errors, "Missing required file") = <<>>
       ELSE Len(Tagged(errors, "Missing required file"))
              = Cardinality(MissingIdx(getRequiredFiles(packageJson, config)))
    /\ IF config.skip.skipPackage
       THEN /\ StageOps("package") = <<>>
            /\ Tagged(errors, "Package verification failed") = <<>>
       ELSE RanItsSteps("package",
                        <<"npm pack", "mkdtemp", "npm init", "npm install">>)
    /\ IF OwnRuntimeFlag
       THEN /\ StageOps("runtime") = <<>>
            /\ Tagged(errors, CatchTag("runtime")) = <<>>
       ELSE RanItsSteps("runtime",
                        <<"mkdtemp", "npm pack", "npm init", "npm install">>)
    /\ Len(SelectSeq(log, LAMBDA l : l.text = "Skipped"))
         = Cardinality({ f \in {"skipBuild", "skipCheckRequiredFiles", "skipPackage"} :
                           config.skip[f] })
           + (IF OwnRuntimeFlag THEN 1 ELSE 0)

\* C15 witness: with skipPackage set alone, Stage 3 called nothing and Stage 4
\* packed and installed on its own
C15_Witness ==
  /\ pc = "summary"
  /\ config.skip.skipPackage
  /\ ~OwnRuntimeFlag
  /\ StageOps("package") = <<>>
  /\ Did("runtime", "npm pack")
  /\ Did("runtime", "npm install")

\* C15 witness of the other case: a module checked with skipCheckBin set
\* alone ran its module branch
C15_ForeignFlagWitness ==
  /\ pc = "summary"
  /\ packageInfo.type = "module"
  /\ config.skip.skipCheckBin
  /\ ~config.skip.skipCheckImport
  /\ Did("runtime", "import")

\* the check() call in progress has left Stage 1 behind
PastBuild == pc \notin {"new", "threw", "idle", "build"}

\* C16: once a check() call has left Stage 1, the build was invoked (once)
\* exactly if skipBuild is unset and the manifest has a build script; the
\* ErrorLog holds one 'Build failed' entry, carrying the cause, if that
\* invocation failed, and none otherwise.
C16_BuildInvokedIffEnabled ==
  PastBuild =>
    /\ Tried("build", "npm run build")
         <=> (~config.skip.skipBuild /\ packageJson.build)
    /\ Len(StageOps("build")) <= 1
    /\ Tagged(errors, "Build failed")
         = IF BuildFailedNow
           THEN <<Err("Build failed", "Command failed", <<>>)>>
           ELSE <<>>

\* C16 witness: the build was invoked and failed, and Stage 1 left exactly
\* one entry
C16_Witness ==
  /\ pc = "files"
  /\ BuildFailedNow
  /\ errors = <<Err("Build failed", "Command failed", <<>>)>>

\* the tags of the entries Stage 4 can append
RuntimeTags ==
  {"Failed to import module", "CLI execution failed",
   "MCP server verification failed"}

\* the required files that are not in the installed copy
MissingInstalled ==
  { i \in DOMAIN getRequiredFiles(packageJson, config) :
      ~ExistsIn(installed, getRequiredFiles(packageJson, config)[i]) }

\* C17: at every moment of a check() call the ErrorLog holds at most one
\* 'Build failed' entry, at most one 'Package verification failed' entry and
\* at most one entry of Stage 4; every other entry is a missing-file entry of
\* Stage 2.
C17_OneEntryPerStage ==
  /\ Len(Tagged(errors, "Build failed")) <= 1
  /\ Len(Tagged(errors, "Package verification failed")) <= 1
  /\ Len(SelectSeq(errors, LAMBDA e : e.tag \in RuntimeTags)) <= 1
  /\ \A i \in DOMAIN errors :
       errors[i].tag \in {"Build failed", "Missing required file",
                          "Package verification failed"} \cup RuntimeTags

\* C17 witness: the installed copy lacked three required files and Stage 4
\* could not load the entry point, and Stage 3 and Stage 4 left one entry each
C17_Witness ==
  /\ pc = "summary"
  /\ Cardinality(MissingInstalled) = 3
  /\ Len(Tagged(errors, "Package verification failed")) = 1
  /\ Len(Tagged(errors, "Failed to import module")) = 1

\* the teardown calls of the service branch
TeardownOps == {"client.close", "cluster.shutdown", "rm testDir", "rm tarball"}

\* the names of the operations Stage 4 called, in the order of the calls
RuntimeCalls ==
  LET called == StageOps("runtime")
  IN  [i \in 1..Len(called) |-> called[i].op]

\* the teardown the service branch owes for what its try block acquired
TeardownDue ==
  (IF Did("runtime", "connectMcpClient") THEN <<"client.close">> ELSE <<>>)
    \o (IF Did("runtime", "spawnCluster") THEN <<"cluster.shutdown">> ELSE <<>>)
    \o (IF Did("runtime", "mkdtemp") THEN <<"rm testDir">> ELSE <<>>)
    \o (IF Did("runtime", "npm pack") THEN <<"rm tarball">> ELSE <<>>)

\* an operation of the try block of Stage 4 failed
RuntimeTryFailed ==
  \E i \in DOMAIN ops :
    ops[i].stage = "runtime" /\ ops[i].op \in TriedOps /\ ~ops[i].ok

\* C18: when the service branch has exited, the operations it called end
\* with its teardown, all of it and in this order: close the client if the
\* connect succeeded, shut the process down if the spawn succeeded, remove the
\* workspace, remove the archive; no teardown call precedes an operation of
\* the try block.  The ErrorLog holds one entry of the branch if an operation
\* of the try block failed and none otherwise, whatever the teardown calls did.
C18_McpTeardownInOrder ==
  (pc = "summary" /\ packageInfo.type = "mcp-server"
     /\ ~config.skip.skipCheckMcpServer) =>
    /\ SelectSeq(RuntimeCalls, LAMBDA n : n \in TeardownOps) = TeardownDue
    /\ SubSeq(RuntimeCalls, Len(RuntimeCalls) - Len(TeardownDue) + 1,
              Len(RuntimeCalls)) = TeardownDue
    /\ Len(Tagged(errors, "MCP server verification failed"))
         = IF RuntimeTryFailed THEN 1 ELSE 0

\* C18 witness: the connect failed and then the shutdown failed, and the
\* workspace and the archive were removed all the same
C18_Witness ==
  /\ pc = "summary"
  /\ \E i \in DOMAIN ops : ops[i] = Op("runtime", "connectMcpClient", FALSE)
  /\ \E i \in DOMAIN ops : ops[i] = Op("runtime", "cluster.shutdown", FALSE)
  /\ Did("runtime", "rm testDir")
  /\ Did("runtime", "rm tarball")
  /\ Len(Tagged(errors, "MCP server verification failed")) = 1

\* the positions inside each runtime branch
ModulePcs == {"mod", "mod_mkdtemp", "mod_pack", "mod_init", "mod_install",
              "mod_import", "mod_cleanup"}
CliPcs    == {"cli", "cli_mkdtemp", "cli_pack", "cli_init", "cli_install",
              "cli_run", "cli_cleanup"}
McpPcs    == {"mcp", "mcp_mkdtemp", "mcp_pack", "mcp_init", "mcp_install",
              "mcp_spawn", "mcp_connect", "mcp_tests", "mcp_call", "mcp_close",
              "mcp_shutdown", "mcp_cleanup"}

\* C19: a check() call is inside a runtime branch only if it is the branch of
\* packageInfo.type, and the operations of a branch (module load; executable
\* run; spawn, connect, validation routine) are called only for that kind;
\* when the call has passed Stage 4 with the flag of its kind unset, the
\* branch of its kind has run.
C19_OneRuntimeBranch ==
  /\ pc \in ModulePcs => packageInfo.type = "module"
  /\ pc \in CliPcs    => packageInfo.type = "cli"
  /\ pc \in McpPcs    => packageInfo.type = "mcp-server"
  /\ Tried("runtime", "import") => packageInfo.type = "module"
  /\ Tried("runtime", "run --version") => packageInfo.type = "cli"
  /\ (\E n \in {"spawnCluster", "connectMcpClient", "import testFile",
                "testMcpServer", "client.close", "cluster.shutdown"} :
        Tried("runtime", n)) => packageInfo.type = "mcp-server"
  /\ (pc = "summary" /\ ~OwnRuntimeFlag) => Tried("runtime", "mkdtemp")
  /\ pc = "summary" =>
       Len(SelectSeq(StageOps("runtime"), LAMBDA o : o.op = "mkdtemp")) <= 1

\* C19 witness: for an executable package Stage 4 ran the installed command
\* and neither loaded a module nor spawned a process
C19_Witness ==
  /\ pc = "summary"
  /\ packageInfo.type = "cli"
  /\ Did("runtime", "run --version")
  /\ ~Tried("runtime", "import")
  /\ ~Tried("runtime", "spawnCluster")

\* how often a fixed line was written in this check() call
Written(text) == Len(SelectSeq(log, LAMBDA l : l.text = text))

\* the errors the summary listed, in the order of the lines
Listed ==
  LET ls == SelectSeq(log, LAMBDA l : l.text = "error")
  IN  [i \in 1..Len(ls) |-> ls[i].err]

\* C20: while a check() call is in its stages no summary line has been
\* written; when it has returned, the summary has been written and agrees
\* with the report: the pass banner (once, and no failure banner and no error
\* line) exactly if the report's errors are empty, and otherwise the failure
\* banner (once, no pass banner) followed by one line per entry of the
\* report's errors, in the same order.
C20_SummaryAgreesWithReport ==
  /\ (pc \notin {"new", "threw", "idle"}) =>
       /\ Written("ALL VERIFICATION PASSED") = 0
       /\ Written("VERIFICATION FAILED") = 0
       /\ Listed = <<>>
  /\ Returned =>
       /\ Written("ALL VERIFICATION PASSED")
            = (IF LastReport.errors = <<>> THEN 1 ELSE 0)
       /\ Written("VERIFICATION FAILED")
            = (IF LastReport.errors = <<>> THEN 0 ELSE 1)
       /\ Listed = LastReport.errors
       /\ LastReport.errors # <<>> =>
            SubSeq(log, Len(log) - Len(LastReport.errors), Len(log))
              = <<Line("VERIFICATION FAILED")>>
                  \o [i \in 1..Len(LastReport.errors) |->
                        ErrLine(LastReport.errors[i])]

\* C20 witness: a call returned a report with three entries and its summary
\* listed the three
C20_Witness ==
  /\ Returned
  /\ Len(LastReport.errors) = 3
  /\ Listed = LastReport.errors
  /\ Written("VERIFICATION FAILED") = 1

\* package.json is an entry of the artifact root itself
ManifestAtRoot == \E p \in tree : p = S_packageJson

\* C21: the constructor throws exactly when package.json is not directly
\* under the artifact root or its text does not parse; after it threw there
\* is no manifest, no packageInfo, no check() call, no report, no log line and
\* no external operation, and nothing can follow.
C21_ConstructionFailsWithoutManifest ==
  /\ pc # "new" =>
       (pc = "threw" <=> ~(ManifestAtRoot /\ env.parses))
  /\ pc = "threw" =>
       /\ packageJson = NoManifest
       /\ packageInfo = NoInfo
       /\ runs = 0
       /\ reports = <<>>
       /\ errors = <<>>
       /\ log = <<>>
       /\ ops = <<>>
       /\ ~ENABLED DetectNext

\* C21 witness: the constructor threw over a root whose only package.json is
\* in a subdirectory
C21_Witness ==
  /\ pc = "threw"
  /\ tree = {S_nestedManifest}
  /\ env.parses

\* C21 witness of the other case: package.json is there and does not parse
C21_UnparsableWitness ==
  /\ pc = "threw"
  /\ ManifestAtRoot
  /\ ~env.parses

\* the list a configuration object gives for requiredFiles, [] if none
ListOf(obj) == IF obj.requiredFiles = Undefined THEN <<>> ELSE obj.requiredFiles[1]

\* C22: in the result of mergeConfig every skip flag has the explicit value
\* when that is true or false and the file value when the explicit value is
\* undefined, and requiredFiles is the file list followed by the explicit
\* list, [] when neither is given.
C22_ExplicitOverFile ==
  pc = "config_done" =>
    /\ \A f \in MergedFlags :
         /\ cliConfig[f] \in {Some(TRUE), Some(FALSE)} =>
              mergedConfig[f] = cliConfig[f]
         /\ cliConfig[f] = Undefined => mergedConfig[f] = fileConfig[f]
    /\ mergedConfig.requiredFiles # Undefined
    /\ LET both == mergedConfig.requiredFiles[1]
       IN  /\ Len(both) = Len(ListOf(fileConfig)) + Len(ListOf(cliConfig))
           /\ SubSeq(both, 1, Len(ListOf(fileConfig))) = ListOf(fileConfig)
           /\ SubSeq(both, Len(ListOf(fileConfig)) + 1, Len(both))
                = ListOf(cliConfig)

\* C22 witness: an explicit skipBuild = false won over the file's true, a
\* flag the caller left undefined came from the file, and the two lists were
\* concatenated
C22_Witness ==
  /\ pc = "config_done"
  /\ cliConfig.skipBuild = Some(FALSE)
  /\ fileConfig.skipBuild = Some(TRUE)
  /\ mergedConfig.skipBuild = Some(FALSE)
  /\ cliConfig.skipCheckImport = Undefined
  /\ mergedConfig.skipCheckImport = Some(TRUE)
  /\ mergedConfig.requiredFiles = Some(<<S_readme, S_a>>)

\* loadConfig has returned
Loaded == pc \in {"config_merge", "config_done"}

\* C23: loadConfig always returns; what it returns is the whole object of
\* .ncprc.json when that file exists and parses, whatever the manifest holds;
\* else the manifest's ncp field when package.json exists and parses and ncp
\* is an object; else the empty object, in particular for a directory that
\* does not exist.
C23_LoadConfigSources ==
  /\ pc = "config_load" =>
       loadConfig(tree, env) \in {env.ncprc.content, env.manifest.ncp, EmptyObject}
  /\ Loaded =>
       /\ (env.ncprc.exists /\ env.ncprc.parses) =>
            fileConfig = env.ncprc.content
       /\ (~(env.ncprc.exists /\ env.ncprc.parses)
             /\ env.manifest.exists /\ env.manifest.parses
             /\ env.manifest.ncpKind = "object") =>
            fileConfig = env.manifest.ncp
       /\ (~(env.ncprc.exists /\ env.ncprc.parses)
             /\ ~(env.manifest.exists /\ env.manifest.parses
                    /\ env.manifest.ncpKind = "object")) =>
            fileConfig = EmptyObject
       /\ ~env.dirExists => fileConfig = EmptyObject

\* C23 witness: .ncprc.json did not parse and loadConfig returned the
\* manifest's ncp object
C23_Witness ==
  /\ Loaded
  /\ env.ncprc.exists
  /\ ~env.ncprc.parses
  /\ env.manifest.ncp = ConfigC
  /\ fileConfig = ConfigC

\* C23 witness of the first case: both sources hold an object and only the
\* one of .ncprc.json was returned
C23_NoFieldMergeWitness ==
  /\ Loaded
  /\ env.ncprc.content = ConfigA
  /\ env.manifest.ncp = ConfigB
  /\ fileConfig = ConfigA
  /\ fileConfig.skipPackage = Undefined

\* node_modules/<package name>: for '@scope/name' this is
\* node_modules/@scope/name
ExpectedRoot == S_nodeModules \o <<"/">> \o packageJson.name

\* a path of the installed copy under the expected root
UnderExpectedRoot(file) == ExpectedRoot \o <<"/">> \o JoinSegs(Segments(file))

Scoped == StartsWith(packageJson.name, <<"@">>)

\* C24: the installed copy is looked up under node_modules/<scope>/<name> for
\* a scoped package name and under node_modules/<name> for an unscoped one:
\* Stage 3 misses a required file exactly when npm did not install it there,
\* the module branch loads the entry point from there and the MCP branch
\* starts the server file from there.
C24_InstalledCopyRoot ==
  Constructed =>
    /\ getInstalledPackagePath(packageJson) = ExpectedRoot
    /\ (pc = "pkg_finally" /\ Did("package", "npm install")) =>
         ((\E i \in DOMAIN errors :
              errors[i].cause = "Missing file in installed package")
          <=> MissingInstalled # {})
    /\ (pc = "mod_import") => modulePath(packageJson)
                                = UnderExpectedRoot(mainFile(packageJson))
    /\ (pc = "mod_cleanup") => ExistsIn(installed, mainFile(packageJson))
    /\ \A i \in DOMAIN errors :
         (errors[i].tag = "Failed to import module"
            /\ errors[i].cause = "Cannot find module") =>
           errors[i].detail = UnderExpectedRoot(mainFile(packageJson))
    /\ (pc = "mcp_tests") => ExistsIn(installed, serverBin(packageJson))
    /\ \A i \in DOMAIN errors :
         errors[i].cause = "connect failed" =>
           errors[i].detail = UnderExpectedRoot(serverBin(packageJson))

\* C24 witness: Stage 3 found every required file of a scoped package in its
\* installed copy
C24_Witness ==
  /\ Scoped
  /\ pc = "pkg_finally"
  /\ Did("package", "npm install")
  /\ errors = <<>>
  /\ ExistsIn(installed, S_distIndex)

\* C24 witness of the module branch: the entry point of a scoped module was
\* loaded from the installed copy
C24_ScopedModuleWitness ==
  /\ Scoped
  /\ pc = "mod_cleanup"
  /\ packageInfo.type = "module"

\* C24 witness of the MCP branch: the server of a scoped package was started
\* from the installed copy and connected
C24_ScopedMcpWitness ==
  /\ Scoped
  /\ pc = "mcp_tests"

\* C24 witness of an unscoped name
C24_UnscopedWitness ==
  /\ ~Scoped
  /\ pc = "mod_cleanup"

\* the external operations of a check() call
ExternalOps ==
  TriedOps \cup {"client.close", "cluster.shutdown"}

\* the external operations among the first n operations of the call
Externals(n) == SelectSeq(SubSeq(ops, 1, n), LAMBDA o : o.op \in ExternalOps)

\* C25: within one check() call the external operations run one at a time:
\* a step of the call starts at most one of them and ends with its outcome,
\* and the operations already completed are left as they are.
C25_OneOperationAtATime ==
  [][ \/ ops' = <<>>
      \/ /\ Len(ops') >= Len(ops)
         /\ SubSeq(ops', 1, Len(ops)) = ops
         /\ Len(SelectSeq(ops', LAMBDA o : o.op \in ExternalOps))
              <= Len(SelectSeq(ops, LAMBDA o : o.op \in ExternalOps)) + 1 ]_vars

\* C25 witness: an MCP run in which the spawn, the connect, the validation
\* routine, the close and the shutdown all took place, one after the other
C25_Witness ==
  /\ pc = "mcp_cleanup"
  /\ Did("runtime", "spawnCluster")
  /\ Did("runtime", "connectMcpClient")
  /\ Did("runtime", "testMcpServer")
  /\ Did("runtime", "client.close")
  /\ Did("runtime", "cluster.shutdown")
  /\ Len(Externals(Len(ops))) >= 13

\* C26: no step of a check() call changes the parsed manifest, the
\* configuration or the packageInfo computed at construction, and every report
\* carries that packageInfo.
C26_CheckerFieldsUnchanged ==
  [][ /\ packageJson' = packageJson
      /\ config' = config
      /\ packageInfo' = packageInfo
      /\ packageInfo' = detectPackageType(packageJson')
      /\ \A i \in DOMAIN reports' : reports'[i].packageInfo = packageInfo' ]_vars

\* C26 witness: two calls on one checker returned, the first with a non-empty
\* ErrorLog, and both reports carry the packageInfo of the construction
C26_Witness ==
  /\ Returned
  /\ runs = 2
  /\ reports[1].errors # <<>>
  /\ reports[1].packageInfo = detectPackageType(packageJson)
  /\ reports[2].packageInfo = detectPackageType(packageJson)
  /\ packageInfo.type = "mcp-server"

\* the Stage 3 entries of the ErrorLog
PackageErrors == Tagged(errors, "Package verification failed")

\* Stage 3 has just been through the installed copy, and a required file is
\* missing from it
InstalledCopyIncomplete ==
  /\ pc = "pkg_finally"
  /\ Did("package", "npm install")
  /\ MissingInstalled # {}

\* the first required file, in list order, that the installed copy lacks
FirstMissingInstalled ==
  getRequiredFiles(packageJson, config)
    [CHOOSE i \in MissingInstalled : \A j \in MissingInstalled : i <= j]

\* the ErrorLog holds a missing-file entry of Stage 3
MissEntered ==
  \E i \in DOMAIN errors :
    errors[i].cause = "Missing file in installed package"

\* C27: when a required file is missing from the installed copy, Stage 3
\* records exactly one error, which names the first missing file of the list
\* and no other; neither the 'required files present' line nor a finding of
\* the excluded-path scan follows it; the workspace and the archive are still
\* removed and Stage 4 is still entered.
C27_FirstMissStopsStage3 ==
  /\ InstalledCopyIncomplete =>
       /\ PackageErrors = <<Err("Package verification failed",
                                "Missing file in installed package",
                                FirstMissingInstalled)>>
       /\ Written("Required files present") = 0
       /\ Written("Excluded files not in package") = 0
  /\ (pc = "summary" /\ MissEntered) =>
       /\ Len(PackageErrors) = 1
       /\ Written("Required files present") = 0
       /\ Tried("package", "rm testDir")
       /\ Tried("package", "rm tarball")
       /\ Written("Step 4") = 1

\* C27 witness: the installed copy lacks dist/index.js, README and LICENSE
\* and holds src/ and .env; Stage 3 named dist/index.js only and the run went
\* on through Stage 4
C27_Witness ==
  /\ pc = "summary"
  /\ MissEntered
  /\ Cardinality(MissingInstalled) = 3
  /\ ExistsIn(installed, S_src)
  /\ ExistsIn(installed, S_env)
  /\ Len(PackageErrors) = 1
  /\ PackageErrors[1].detail = S_main
  /\ Tried("runtime", "npm install")
  /\ Tried("package", "rm testDir")

\* the number of workspaces the call in progress has created
Made == Len(SelectSeq(ops, LAMBDA o : o.op = "mkdtemp" /\ o.ok))

\* the workspaces the call created that still exist
OwnDirs == dirs \cap ((nextDir - Made)..(nextDir - 1))

\* the workspace Stage 3 of this call created (it is the first one)
Stage3Dir == nextDir - Made

\* the removal of Stage 3's workspace failed
Stage3RemovalFailed ==
  \E i \in DOMAIN ops : ops[i] = Op("package", "rm testDir", FALSE)

\* Stage 4 holds a workspace it created itself, not the one of Stage 3
Stage4UsesOwn ==
  (pc \in ModulePcs \cup CliPcs \cup McpPcs /\ testDir # 0) =>
    /\ Did("runtime", "mkdtemp")
    /\ testDir = nextDir - 1
    /\ Did("package", "mkdtemp") => testDir # Stage3Dir

\* C28 as stated: Stage 4 works in a workspace of its own, and at most one
\* workspace created by the call exists at any time.
C28_AtMostOneWorkspace ==
  /\ Stage4UsesOwn
  /\ Cardinality(OwnDirs) <= 1

\* C28 as amended: Stage 4 works in a workspace of its own; Stage 3's
\* workspace is gone when Stage 4 creates its own unless its removal failed
\* (which is only logged), so at most one workspace created by the call
\* exists at any time when that removal succeeded and at most two otherwise.
C28_OwnWorkspacePerStage ==
  /\ Stage4UsesOwn
  /\ (Did("package", "rm testDir") /\ Did("runtime", "mkdtemp")) =>
       Stage3Dir \notin dirs
  /\ Cardinality(OwnDirs) <= IF Stage3RemovalFailed THEN 2 ELSE 1

\* C28 witness: Stage 3's removal failed and Stage 4 then created its own
\* workspace, so two exist
C28_Witness ==
  /\ Stage3RemovalFailed
  /\ pc \in ModulePcs \cup CliPcs \cup McpPcs
  /\ testDir # 0
  /\ Cardinality(OwnDirs) = 2

\* C28 witness of the usual case: Stage 3's workspace was removed and Stage 4
\* holds the only one
C28_RemovedWitness ==
  /\ Did("package", "rm testDir")
  /\ pc \in ModulePcs \cup CliPcs \cup McpPcs
  /\ testDir # 0
  /\ OwnDirs = {testDir}

\* the excluded-path findings in the ErrorLog
ExcludedErrors ==
  SelectSeq(errors, LAMBDA e :
    e.cause = "File/directory should NOT be in package")

\* Stage 3 has just been through the installed copy and found every required
\* file in it
ScanReached ==
  /\ pc = "pkg_finally"
  /\ Did("package", "npm install")
  /\ MissingInstalled = {}

\* C29: the excluded-path scan flags 'src' or 'test' exactly when the
\* installed copy has a top-level entry of that very name: an entry 'srcs' or
\* 'testing' is never named in a finding, and an installed copy that holds
\* them, and no entry named 'src', 'test' or '.env', passes the scan.
C29_ExactPresenceOnly ==
  ScanReached =>
    /\ \A i \in DOMAIN ExcludedErrors :
         /\ ExcludedErrors[i].detail \notin {S_srcs, S_testing}
         /\ ExcludedErrors[i].detail \in {S_src, S_test} =>
              ExcludedErrors[i].detail \in ReadDir(installed)
    /\ S_src \in ReadDir(installed) =>
         ExcludedErrors = <<Err("Package verification failed",
                                "File/directory should NOT be in package",
                                S_src)>>
    /\ ({S_src, S_test, S_env} \cap ReadDir(installed) = {}) =>
         /\ ExcludedErrors = <<>>
         /\ Written("Excluded files not in package") = 1

\* C29 witness: the installed copy holds testing/ and srcs/ and neither test
\* nor src, and the scan passed it
C29_Witness ==
  /\ ScanReached
  /\ {S_srcs, S_testing} \subseteq ReadDir(installed)
  /\ {S_src, S_test} \cap ReadDir(installed) = {}
  /\ errors = <<>>
  /\ Written("Excluded files not in package") = 1

\* C29 witness of the exact match: an installed copy with src/ was flagged
C29_SrcFlaggedWitness ==
  /\ ScanReached
  /\ S_src \in ReadDir(installed)
  /\ Len(ExcludedErrors) = 1

\* the first key of a non-empty bin map in own-property order: the smallest
\* array-index key if the map has one, else the first key it declares
FirstEnumeratedKey(bin) ==
  LET idx == { i \in DOMAIN bin.entries : IsArrayIndex(bin.entries[i].key) }
  IN  IF idx = {} THEN bin.entries[1].key
      ELSE bin.entries[CHOOSE i \in idx : \A j \in idx :
                         ToNat(bin.entries[i].key) <= ToNat(bin.entries[j].key)].key

\* the lines `Running CLI: <name> --version` of the call
RunningLines == SelectSeq(log, LAMBDA l : l.text = "Running CLI")

CliErrors == Tagged(errors, "CLI execution failed")

\* the `--version` command of the call was run and exited with a failure
RunFailed ==
  \E i \in DOMAIN ops : ops[i] = Op("runtime", "run --version", FALSE)

\* the executable branch invoked node_modules/.bin/<name> with '--version':
\* the name is on the 'Running CLI' line, a successful run had a link of that
\* name to a file of the installed copy, and a failed run left exactly one
\* 'CLI execution failed' error, which names the command
Invoked(name) ==
  /\ \A i \in DOMAIN RunningLines : RunningLines[i].err.detail = name
  /\ Tried("runtime", "run --version") => Len(RunningLines) = 1
  /\ Did("runtime", "run --version") =>
       \E l \in NpmBinLinks(packageJson) :
         l.key = name /\ ExistsIn(installed, l.value)
  /\ RunFailed =>
       CliErrors = <<Err("CLI execution failed", "Command failed",
                         S_nodeModules \o <<"/", ".", "b", "i", "n", "/">>
                           \o name)>>

\* C30 as stated: the invoked name is the last '/'-separated segment of the
\* package name for a string bin and the first declared key for a map.
C30_FirstDeclaredKey ==
  (packageInfo.type = "cli" /\ RunningLines # <<>>) =>
    Invoked(IF packageJson.bin.form = "string"
            THEN AfterLastSlash(packageJson.name)
            ELSE packageJson.bin.entries[1].key)

\* C30 as amended: the invoked name is the last '/'-separated segment of the
\* package name for a string bin and, for a map, its first key in
\* own-property order (array-index keys first, in ascending order, then the
\* other keys as declared); for an empty map no command is run and the branch
\* records one 'CLI execution failed' error.
C30_FirstEnumeratedKey ==
  packageInfo.type = "cli" =>
    /\ RunningLines # <<>> =>
         Invoked(IF packageJson.bin.form = "string"
                 THEN AfterLastSlash(packageJson.name)
                 ELSE FirstEnumeratedKey(packageJson.bin))
    /\ (packageJson.bin.form = "object" /\ packageJson.bin.entries = <<>>) =>
         /\ ~Tried("runtime", "run --version")
         /\ (Did("runtime", "npm install") /\ pc # "cli_run") =>
              Len(CliErrors) = 1

\* C30 witness: a map that declares 'cli' before '10' and '2'; the command
\* run was node_modules/.bin/2, and its failure left one error
C30_Witness ==
  /\ Len(packageJson.bin.entries) = 3
  /\ RunFailed
  /\ Len(RunningLines) = 1
  /\ RunningLines[1].err.detail = S_two
  /\ Len(errors) = 1

\* C30 witness of a string bin: '@s/cli' was invoked as 'cli', with success
C30_StringBinWitness ==
  /\ packageJson.bin.form = "string"
  /\ packageJson.name = S_cliName
  /\ Did("runtime", "run --version")
  /\ RunningLines[1].err.detail = S_cliKey

\* C30 witness of a map whose first declared key is invoked
C30_DeclaredKeyWitness ==
  /\ Len(packageJson.bin.entries) = 2
  /\ Did("runtime", "run --version")
  /\ RunningLines[1].err.detail = S_cliKey

\* getServerName() was called on a manifest without a service identity
NameFromPackage ==
  /\ Constructed
  /\ serverName # Undefined
  /\ packageJson.mcpName = <<>>

\* C31: without a service-identity field getServerName derives the name from
\* the package name: '@scope/name' gives 'name', an unscoped name is returned
\* as it is.
C31_NameFromPackageName ==
  NameFromPackage =>
    serverName[1] = IF StartsWith(packageJson.name, <<"@">>)
                    THEN AfterLastSlash(packageJson.name)
                    ELSE packageJson.name

\* C31 witness: from the package name '@s/cli' the call derived 'cli'
C31_Witness ==
  /\ NameFromPackage
  /\ packageJson.name = S_cliName
  /\ serverName = Some(<<"c","l","i">>)

\* C31 witness of an unscoped name
C31_UnscopedWitness ==
  /\ NameFromPackage
  /\ serverName = Some(S_modName)

\* the operations that load and invoke the validation routine
ValidationOps == {"import testFile", "testMcpServer"}

\* operation `name` of Stage 4 succeeded before the i-th operation of the call
DoneBefore(name, i) ==
  \E j \in 1..(i - 1) : ops[j] = Op("runtime", name, TRUE)

McpErrors == Tagged(errors, "MCP server verification failed")

C32_NoExportWitness ==
  /\ pc = "summary"
  /\ Did("runtime", "import testFile")
  /\ ~env.exported
  /\ errors = <<>>

\* C32 witness of a connect that failed with a testFile configured: the
\* module was not loaded
C32_NotLoadedWitness ==
  /\ pc = "summary"
  /\ config.testFile # <<>>
  /\ \E i \in DOMAIN ops : ops[i] = Op("runtime", "connectMcpClient", FALSE)
  /\ ~Tried("runtime", "import testFile")

\* C32 witness of an executable checked with a testFile configured
C32_CliWitness ==
  /\ pc = "summary"
  /\ packageInfo.type = "cli"
  /\ config.testFile # <<>>
  /\ Tried("runtime", "npm install")
  /\ ~Tried("runtime", "import testFile")

\* the stage an ErrorLog entry comes from
StageOf(e) ==
  CASE e.tag = "Build failed" -> 1
    [] e.tag = "Missing required file" -> 2
    [] e.tag = "Package verification failed" -> 3
    [] e.tag \in RuntimeTags -> 4
    [] OTHER -> 0

\* the entries of a log are in stage order, with at most one entry of each of
\* the stages 1, 3 and 4
StageOrdered(errs) ==
  /\ \A i \in DOMAIN errs : StageOf(errs[i]) \in 1..4
  /\ \A i, j \in DOMAIN errs :
       i < j => /\ StageOf(errs[i]) <= StageOf(errs[j])
                /\ StageOf(errs[i]) = StageOf(errs[j]) => StageOf(errs[i]) = 2

\* log a is a prefix of log b
IsPrefix(a, b) == Len(a) <= Len(b) /\ SubSeq(b, 1, Len(a)) = a

\* C33: the ErrorLog of a check() call is in stage order (build failure, then
\* the missing files of Stage 2, then the Stage 3 entry, then the Stage 4
\* entry), and a step of the call only appends to it; it is emptied only by
\* the step that starts a call.
C33_ErrorLogOrderedAppendOnly ==
  [][ /\ StageOrdered(errors')
      /\ \/ IsPrefix(errors, errors')
         \/ (pc = "idle" /\ pc' = "build" /\ errors' = <<>>) ]_vars

\* C33 witness: a call left a build failure, two missing files, a Stage 3
\* entry and a Stage 4 entry, in that order
C33_Witness ==
  /\ pc = "summary"
  /\ Len(errors) >= 4
  /\ StageOf(errors[1]) = 1
  /\ StageOf(errors[2]) = 2
  /\ StageOf(errors[Len(errors) - 1]) = 3
  /\ StageOf(errors[Len(errors)]) = 4


\* C34: a report check() has returned stays as it was returned: no later step
\* of the checker, a later check() call included, changes its errors, its
\* success flag or its packageInfo, and a later call starts from an empty
\* ErrorLog of its own.
C34_ReturnedReportsUnchanged ==
  [][ /\ \A i \in DOMAIN reports : i \in DOMAIN reports' /\ reports'[i] = reports[i]
      /\ (pc = "idle" /\ pc' = "build") => errors' = <<>> ]_vars

\* C34 witness: a first call returned a failing report and a second call on
\* the same checker returned a passing one
C34_Witness ==
  /\ Returned
  /\ Len(reports) = 2
  /\ ~reports[1].success
  /\ reports[1].errors # <<>>
  /\ reports[2].success
  /\ reports[2].errors = <<>>

\* C34 witness: a second call is recording errors of its own while the first
\* report holds different ones
C34_LaterCallWitness ==
  /\ pc = "summary"
  /\ Len(reports) = 1
  /\ reports[1].errors # <<>>
  /\ errors # <<>>
  /\ errors # reports[1].errors


\* the checker is a module whose manifest declares no `main`
NoMainModule == packageInfo.type = "module" /\ packageJson.main = <<>>

\* the entry verifyModuleImport records when ./index.js cannot be loaded
\* from the installed copy
IndexJsNotFound ==
  Err("Failed to import module", "Cannot find module",
      JoinSegs(Segments(getInstalledPackagePath(packageJson)) \o <<"index.js">>))

\* C35: for a module whose manifest declares no `main`, the runtime stage
\* loads ./index.js of the installed copy: the load succeeds only if the
\* installed copy holds index.js; and when only package.json is required, the
\* artifact has no index.js, no stage is skipped but the build and no
\* external operation faults, the call passes Stage 2 and Stage 3 and ends
\* with exactly one error, the failed import of <installed copy>/index.js.
C35_NoMainLoadsIndexJs ==
  /\ (pc = "mod_cleanup" /\ NoMainModule) => ExistsIn(packageDir, S_indexJs)
  /\ (/\ pc = "summary"
      /\ NoMainModule
      /\ getRequiredFiles(packageJson, config) = <<S_packageJson>>
      /\ ~ExistsIn(tree, S_indexJs)
      /\ faults = 0
      /\ ~config.skip.skipCheckRequiredFiles
      /\ ~config.skip.skipPackage
      /\ ~config.skip.skipCheckImport)
     => /\ Did("package", "npm install")
        /\ Tried("runtime", "import")
        /\ errors = <<IndexJsNotFound>>

\* C35 witness: a module with no `main` and no index.js went through the
\* file check and the packaging stage and failed to load ./index.js
C35_Witness ==
  /\ pc = "summary"
  /\ NoMainModule
  /\ ~ExistsIn(tree, S_indexJs)
  /\ ExistsIn(tree, S_distIndex)
  /\ faults = 0
  /\ Did("package", "npm install")
  /\ Tried("runtime", "import")
  /\ errors = <<IndexJsNotFound>>

\* C35 witness: the build wrote index.js and the same module loaded it
C35_IndexJsLoadedWitness ==
  /\ pc = "summary"
  /\ NoMainModule
  /\ Did("runtime", "import")
  /\ errors = <<>>


\* the properties of a merged configuration
MergedKeys == MergedFlags \cup {"packageDir", "logger", "requiredFiles"}

C36_ExplicitWitness ==
  /\ pc = "summary"
  /\ cliConfig.testFile = Some(S_checkTests)
  /\ cliConfig.skipCheckMcpServer = Some(TRUE)
  /\ fileConfig.testFile = Undefined
  /\ Did("runtime", "connectMcpClient")
  /\ errors = <<>>

====
